---- MODULE Spec2Model ----
(***************************************************************************)
(* Model of the inference core of Wishmaster-Desktop (src-tauri/src):      *)
(* the model lifecycle statics of llm.rs (MODEL, MODEL_PATH, CONTEXT_SIZE, *)
(* LOAD_MODEL_LOCK, SEED_COUNTER), llm::load_model / unload_model /        *)
(* is_loaded / generate, and the commands of commands.rs that call them    *)
(* (load_model, unload_model, generate, stop_generation) with the shared   *)
(* STOP_GENERATION flag and the events they emit.                          *)
(*                                                                         *)
(* Every command invocation is a process; a step is one access to shared   *)
(* state (a mutex acquisition with the work done under it, an atomic       *)
(* load/store) together with the thread-local code that follows it.        *)
(***************************************************************************)
EXTENDS Integers, Sequences, FiniteSets, TLC

(***************************************************************************)
(* Bounds of the model.                                                     *)
(***************************************************************************)
\* largest max_tokens a generate request is given
MaxIter == 2

\* passes of a generation's loop that are explored when max_tokens does not end it
MaxPasses == 3

\* chat sessions, messages and memory facts that are created
MaxSessions == 1

MaxMessages == 2

MaxMemories == 1

\* the rows of the embeddings table that semantic_search reads
MaxRows == 2

(***************************************************************************)
(* Text: a string is a sequence of characters; a character is a one-letter *)
(* string, or a two-letter name for a character that takes 2 bytes in      *)
(* UTF-8.                                                                   *)
(***************************************************************************)
WideChars == {"Zm", "Zo", "Zd", "Ze", "Zl", "Zi"}

ByteWidth(c) == IF c \in WideChars THEN 2 ELSE 1

RECURSIVE ByteLen(_)
ByteLen(s) == IF s = <<>> THEN 0 ELSE ByteWidth(Head(s)) + ByteLen(Tail(s))

\* str::is_char_boundary: byte offset k starts a character of s (or is its end)
IsCharBoundary(s, k) == \E i \in 0..Len(s) : ByteLen(SubSeq(s, 1, i)) = k

StartsWith(s, pat) == Len(s) >= Len(pat) /\ SubSeq(s, 1, Len(pat)) = pat

\* str::contains
Contains(s, pat) == \E i \in 1..(Len(s) - Len(pat) + 1) : SubSeq(s, i, i + Len(pat) - 1) = pat

\* str::replace(pat, ""): the non-overlapping matches, found left to right, removed
RECURSIVE RemoveAll(_, _)
RemoveAll(s, pat) ==
    IF s = <<>> \/ pat = <<>> THEN s
    ELSE IF StartsWith(s, pat) THEN RemoveAll(SubSeq(s, Len(pat) + 1, Len(s)), pat)
    ELSE <<Head(s)>> \o RemoveAll(Tail(s), pat)

\* path.split('/').last(): the text after the last '/'
RECURSIVE LastSegment(_)
LastSegment(s) ==
    IF s = <<>> THEN <<>>
    ELSE IF s[Len(s)] = "/" THEN <<>>
    ELSE LastSegment(SubSeq(s, 1, Len(s) - 1)) \o <<s[Len(s)]>>

GgufExt == <<".", "g", "g", "u", "f">>

\* commands::load_model: the tracked model name
ModelName(s) == RemoveAll(LastSegment(s), GgufExt)

(***************************************************************************)
(* llm.rs: STOP_SEQUENCES                                                   *)
(***************************************************************************)
StopImEnd == <<"<", "|", "i", "m", "_", "e", "n", "d", "|", ">">>
StopImStart == <<"<", "|", "i", "m", "_", "s", "t", "a", "r", "t", "|", ">">>
StopEos == <<"<", "/", "s", ">">>
StopEndOfText == <<"<", "|", "e", "n", "d", "o", "f", "t", "e", "x", "t", "|", ">">>

STOP_SEQUENCES == <<StopImEnd, StopImStart, StopEos, StopEndOfText>>

\* STOP_SEQUENCES.iter().any(|seq| accumulated.contains(seq))
ShouldStop(accumulated) == \E i \in 1..Len(STOP_SEQUENCES) : Contains(accumulated, STOP_SEQUENCES[i])

\* STOP_SEQUENCES.iter().fold(token_str, |acc, seq| acc.replace(seq, ""))
RECURSIVE CleanFrom(_, _)
CleanFrom(s, i) ==
    IF i > Len(STOP_SEQUENCES) THEN s
    ELSE CleanFrom(RemoveAll(s, STOP_SEQUENCES[i]), i + 1)

CleanToken(token_str) == CleanFrom(token_str, 1)

(***************************************************************************)
(* The file system and the paths load_model is called with.                *)
(***************************************************************************)
PathNames == {"good", "missing", "wide"}

\* "/m/qwen.gguf"
PathGoodChars == <<"/", "m", "/", "q", "w", "e", "n", ".", "g", "g", "u", "f">>

\* "/nonexistent/model.bin"
PathMissingChars ==
    <<"/", "n", "o", "n", "e", "x", "i", "s", "t", "e", "n", "t", "/",
      "m", "o", "d", "e", "l", ".", "b", "i", "n">>

\* "/" + six 2-byte letters + "/qwen2.5-7b-instruct-q4k.gguf": 42 bytes
PathWideChars ==
    <<"/", "Zm", "Zo", "Zd", "Ze", "Zl", "Zi", "/",
      "q", "w", "e", "n", "2", ".", "5", "-", "7", "b", "-",
      "i", "n", "s", "t", "r", "u", "c", "t", "-", "q", "4", "k",
      ".", "g", "g", "u", "f">>

PathChars(p) ==
    CASE p = "good" -> PathGoodChars
      [] p = "missing" -> PathMissingChars
      [] p = "wide" -> PathWideChars

\* std::path::Path::new(path).exists()
ExistingFiles == {"good", "wide"}

PathExists(p) == p \in ExistingFiles

\* llm.rs:190  &path[path.len().saturating_sub(40)..] panics unless the start
\* offset is a character boundary
PathTailWidth == 40

SaturatingSub(a, b) == IF a >= b THEN a - b ELSE 0

PathSliceOk(p) ==
    IsCharBoundary(PathChars(p), SaturatingSub(ByteLen(PathChars(p)), PathTailWidth))

\* context_length values of the load command (i32, cast to usize and then to u32)
ContextLengths == {512, 4096}

\* `_context_length as usize` then `context_length as u32`, for the
\* non-negative lengths of ContextLengths
ContextAsU32(n) == n

DefaultContextSize == 2048

SeedStart == 42

NoModel == 0

NoPath == "None"

(***************************************************************************)
(* The model runtime as generate sees it: the tokens it can sample and the *)
(* text token_to_piece (with the streaming UTF-8 decoder) yields for each. *)
(***************************************************************************)
TokEog == "EOG"

NoToken == "None"

\* token_to_piece: "a"; nothing yet (a token that ends inside a multi-byte
\* character); "a</s>"; "</s>"; "</" and "s>"; "<</s>/s>"
TokenPiece(t) ==
    CASE t = "a" -> <<"a">>
      [] t = "part" -> <<>>
      [] t = "a_eos" -> <<"a">> \o StopEos
      [] t = "eos" -> StopEos
      [] t = "lt" -> <<"<", "/">>
      [] t = "gt" -> <<"s", ">">>
      [] t = "eos_in_eos" -> <<"<">> \o StopEos \o <<"/", "s", ">">>

\* model.is_eog_token
IsEogToken(t) == t = TokEog

\* `max_tokens as usize` (commands.rs:658): a negative i32 becomes 2^64 + n,
\* beyond every count a run reaches; kept here above every non-negative i32
AsUsize(n) == IF n >= 0 THEN n ELSE 2147483647

\* SEED_COUNTER.fetch_add(1): a u32 kept as <<high, low>> 16-bit halves, wrapping
SeedAdd(s) ==
    IF s[2] + 1 < 65536 THEN <<s[1], s[2] + 1>>
    ELSE IF s[1] + 1 < 65536 THEN <<s[1] + 1, 0>>
    ELSE <<0, 0>>

\* llm.rs:67-82 sample_with_temperature: the greedy path leaves the counter
\* alone, the random path draws next_seed()
SeedAfterSample(temperature, seed) == IF temperature <= 0 THEN seed ELSE SeedAdd(seed)

(***************************************************************************)
(* Processes: one per command invocation.                                   *)
(***************************************************************************)
Loaders == {"l1", "l2"}

Unloaders == {"u1"}

Gens == {"g1", "g2"}

Free == "free"

VARIABLES
    MODEL,              \* Option<LlamaModel>: a handle (1, 2, ..) or NoModel
    modelLock,          \* holder of MODEL's mutex, or Free
    modelPoisoned,      \* MODEL's mutex is poisoned (a holder panicked)
    MODEL_PATH,         \* Option<String>: a path name or NoPath
    CONTEXT_SIZE,       \* u32
    LOAD_MODEL_LOCK,    \* holder of LOAD_MODEL_LOCK, or Free
    loadPoisoned,       \* LOAD_MODEL_LOCK is poisoned
    SEED_COUNTER,       \* AtomicU32
    STOP_GENERATION,    \* AtomicBool
    CURRENT_MODEL,      \* commands.rs: tracked model name
    handles,            \* handles[h]: the load_model call that created handle h
    lpc, lpath, lctx, lnew, lres, lpre,     \* load_model invocations
    upc,                                    \* unload_model invocations
    gpc, gtemp, gmax, gmodel, gctx, giter, gacc, gtok, gres, gerr, gexit,
                                            \* generate invocations
    gfrags,             \* history: the fragments passed to the callback
    events,             \* history: the events emitted, in order
    stopReq, cbAfter, emitAfter, flagSet, iterSince
                        \* history of stop_generation against each generation

\* the database (database.rs) and the semantic index (embeddings.rs)
VARIABLES
    sessions, nextSession,      \* table sessions (ids) and its AUTOINCREMENT
    messages, nextMessage,      \* table messages: [id, session_id, content]
    memory, nextMemory,         \* table memory: [id, content]
    embeddings,                 \* table embeddings: [source_type, source_id, content_hash, vector]
    EMBEDDER,                   \* the embedding model is initialised
    tasks,                      \* indexing threads spawned by save_message, not yet run
    iapc, iasnap,               \* index_all_messages: position, messages still to index
    dbHolder,                   \* who holds the connection across several statements
    idxLast,                    \* history: the last index_message / index_memory call: the
                                \* store held the source's record with this content (had) or
                                \* with other content (other), and what the call did
    lastIndexed,                \* history: per source, the content last indexed with success
    saveLog                     \* history: what save_message returned

indexVars == <<sessions, nextSession, messages, nextMessage, memory, nextMemory,
               embeddings, EMBEDDER, tasks, iapc, iasnap, dbHolder,
               idxLast, lastIndexed, saveLog>>

\* the calls of the functions that are checked on their own
VARIABLES
    srch,                       \* a semantic_search call: the rows of the table, the arguments,
                                \* the Vec returned
    bld,                        \* a build_enriched_system_prompt call: the arguments, what the
                                \* database and the embedder hold, the String returned
    fmt,                        \* the prompt text of a generate command: the history given,
                                \* the system prompt, the new message, the String built
    csim,                       \* a cosine_similarity call: the two vectors, the f32 returned
    rtrip,                      \* a vector written to a BLOB and read back: the Vec<f32>,
                                \* the bytes, the Vec<f32> recovered
    smp                         \* sample_with_temperature as the sampling loops call it: per
                                \* loop its temperature and the tokens selected; history: the
                                \* counter at the start and the seeds handed out since

pureVars == <<srch, bld, fmt, smp, csim, rtrip>>

\* the state outside the model lifecycle and the generation
extVars == <<indexVars, pureVars>>

lifeVars == <<MODEL, modelLock, modelPoisoned, MODEL_PATH, CONTEXT_SIZE,
              LOAD_MODEL_LOCK, loadPoisoned, CURRENT_MODEL, handles>>

loadVars == <<lpc, lpath, lctx, lnew, lres, lpre>>

genVars == <<gpc, gtemp, gmax, gmodel, gctx, giter, gacc, gtok, gres, gerr, gexit,
             gfrags>>

stopVars == <<stopReq, cbAfter, emitAfter, flagSet, iterSince>>

vars == <<lifeVars, loadVars, upc, genVars, SEED_COUNTER, STOP_GENERATION, events, stopVars,
          extVars>>

\* llm::init() (llm.rs:84-123): nothing loaded, no load invoked yet
InitLifecycle ==
    /\ MODEL = NoModel
    /\ modelLock = Free
    /\ modelPoisoned = FALSE
    /\ MODEL_PATH = NoPath
    /\ CONTEXT_SIZE = DefaultContextSize
    /\ LOAD_MODEL_LOCK = Free
    /\ loadPoisoned = FALSE
    /\ CURRENT_MODEL = <<>>
    /\ handles = <<>>
    /\ lpc = [l \in Loaders |-> "idle"]
    /\ lpath = [l \in Loaders |-> NoPath]
    /\ lctx = [l \in Loaders |-> 0]
    /\ lnew = [l \in Loaders |-> NoModel]
    /\ lres = [l \in Loaders |-> "none"]
    /\ lpre = [l \in Loaders |-> <<NoModel, NoPath, 0>>]
    /\ upc = [u \in Unloaders |-> "idle"]

\* no generate or stop_generation invoked yet
InitRequests ==
    /\ STOP_GENERATION = FALSE
    /\ gpc = [g \in Gens |-> "idle"]
    /\ gtemp = [g \in Gens |-> 0]
    /\ gmax = [g \in Gens |-> 0]
    /\ gmodel = [g \in Gens |-> NoModel]
    /\ gctx = [g \in Gens |-> 0]
    /\ giter = [g \in Gens |-> 0]
    /\ gacc = [g \in Gens |-> <<>>]
    /\ gtok = [g \in Gens |-> NoToken]
    /\ gres = [g \in Gens |-> "none"]
    /\ gerr = [g \in Gens |-> "none"]
    /\ gexit = [g \in Gens |-> "none"]
    /\ gfrags = [g \in Gens |-> <<>>]
    /\ events = <<>>
    /\ stopReq = [g \in Gens |-> FALSE]
    /\ cbAfter = [g \in Gens |-> 0]
    /\ emitAfter = [g \in Gens |-> 0]
    /\ flagSet = [g \in Gens |-> FALSE]
    /\ iterSince = [g \in Gens |-> 0]

\* llm.rs:20: the draw counter of a process that has drawn no seed yet
InitGeneration == SEED_COUNTER = <<0, SeedStart>> /\ InitRequests

SourceTypes == {"message", "memory"}

\* the (source_type, source_id) an embedding can be stored for
IndexKeys ==
    {<<"message", i>> : i \in 1..MaxMessages} \cup {<<"memory", i>> : i \in 1..MaxMemories}

NoContent == "None"

\* database::init (database.rs:58-168) on a new file: empty tables
InitDatabase ==
    /\ sessions = {}
    /\ nextSession = 1
    /\ messages = {}
    /\ nextMessage = 1
    /\ memory = {}
    /\ nextMemory = 1
    /\ embeddings = {}
    /\ tasks = {}
    /\ iapc = "idle"
    /\ iasnap = <<>>
    /\ dbHolder = "none"
    /\ idxLast = [had |-> FALSE, other |-> FALSE, lookup |-> "none", embedded |-> FALSE,
                  wrote |-> FALSE, result |-> "none"]
    /\ lastIndexed = [k \in IndexKeys |-> NoContent]
    /\ saveLog = {}

\* semantic_search's source_type: None
NoFilter == "None"

\* no semantic_search call
NoSearch ==
    [pc |-> "idle", rows |-> <<>>, query_vector |-> <<>>, source_type |-> NoFilter,
     limit |-> 0, min_similarity |-> <<0, 1>>, results |-> <<>>]

\* no build_enriched_system_prompt call
NoBuild == [pc |-> "idle"]

\* no prompt text being built
NoPrompt == [pc |-> "idle"]

\* no sampling loop
NoSampling == [pc |-> "idle"]

\* no cosine_similarity call
NoCosine == [pc |-> "idle"]

NoRoundTrip == [pc |-> "idle"]

\* main.rs:50-57: the thread that calls init_embedder() has not finished
InitExt ==
    /\ InitDatabase /\ EMBEDDER = FALSE
    /\ srch = NoSearch /\ bld = NoBuild /\ fmt = NoPrompt /\ smp = NoSampling
    /\ csim = NoCosine /\ rtrip = NoRoundTrip

Init == InitLifecycle /\ InitGeneration /\ InitExt

\* the state Spec reaches when the command load_model("good", 4096) of l1 has
\* returned Ok and nothing else was invoked
LoadedLifecycle ==
    /\ MODEL = 1
    /\ modelLock = Free
    /\ modelPoisoned = FALSE
    /\ MODEL_PATH = "good"
    /\ CONTEXT_SIZE = ContextAsU32(4096)
    /\ LOAD_MODEL_LOCK = Free
    /\ loadPoisoned = FALSE
    /\ CURRENT_MODEL = ModelName(PathChars("good"))
    /\ handles = << <<"good", 4096>> >>
    /\ lpc = [l \in Loaders |-> IF l = "l1" THEN "done" ELSE "idle"]
    /\ lpath = [l \in Loaders |-> IF l = "l1" THEN "good" ELSE NoPath]
    /\ lctx = [l \in Loaders |-> IF l = "l1" THEN 4096 ELSE 0]
    /\ lnew = [l \in Loaders |-> IF l = "l1" THEN 1 ELSE NoModel]
    /\ lres = [l \in Loaders |-> IF l = "l1" THEN "Ok" ELSE "none"]
    /\ lpre = [l \in Loaders |->
                 IF l = "l1" THEN <<NoModel, NoPath, DefaultContextSize>>
                 ELSE <<NoModel, NoPath, 0>>]
    /\ upc = [u \in Unloaders |-> "idle"]

(***************************************************************************)
(* llm::unload_model, llm.rs:253-266.  Two critical sections: MODEL's      *)
(* mutex, then MODEL_PATH's.  `if let Ok(..) = lock()` skips a poisoned     *)
(* mutex and waits for a held one.                                          *)
(***************************************************************************)
\* lock() that does not wait for the holder
ModelLockNeverWaits == TRUE

\* MODEL's mutex can be taken now (lock() would not block)
ModelLockAvailable == modelLock = Free

\* unload_model taking LOAD_MODEL_LOCK itself, which is not reentrant
UnloadModelSlotUnderLoadLock ==
    /\ LOAD_MODEL_LOCK = Free
    /\ ModelLockAvailable
    /\ MODEL' = IF modelPoisoned THEN MODEL ELSE NoModel

\* llm.rs:254-259
UnloadModelSlot ==
    /\ ModelLockAvailable
    /\ MODEL' = IF modelPoisoned THEN MODEL ELSE NoModel

\* llm.rs:261-265
UnloadModelPath == MODEL_PATH' = NoPath

(***************************************************************************)
(* commands::load_model (commands.rs:194-213) and llm::load_model          *)
(* (llm.rs:175-251).                                                        *)
(***************************************************************************)
\* commands.rs:195-206: track the model name, spawn the blocking task
LoadCommand(l, p, c) ==
    /\ lpc[l] = "idle"
    /\ CURRENT_MODEL' = ModelName(PathChars(p))
    /\ lpath' = [lpath EXCEPT ![l] = p]
    /\ lctx' = [lctx EXCEPT ![l] = c]
    /\ lpc' = [lpc EXCEPT ![l] = "lock"]
    /\ UNCHANGED <<MODEL, modelLock, modelPoisoned, MODEL_PATH, CONTEXT_SIZE,
                   LOAD_MODEL_LOCK, loadPoisoned, handles, lnew, lres, lpre>>
    /\ UNCHANGED <<upc, genVars, SEED_COUNTER, STOP_GENERATION, events, stopVars>>
    /\ UNCHANGED extVars

\* llm.rs:176-178: LOAD_MODEL_LOCK.lock(), an error when poisoned
LoadAcquire(l) ==
    /\ lpc[l] = "lock"
    /\ IF loadPoisoned
       THEN /\ lres' = [lres EXCEPT ![l] = "LockPoisoned"]
            /\ lpc' = [lpc EXCEPT ![l] = "done"]
            /\ UNCHANGED <<LOAD_MODEL_LOCK, lpre>>
       ELSE /\ LOAD_MODEL_LOCK = Free
            /\ LOAD_MODEL_LOCK' = l
            /\ lpre' = [lpre EXCEPT ![l] = <<MODEL, MODEL_PATH, CONTEXT_SIZE>>]
            /\ lpc' = [lpc EXCEPT ![l] = "unload_model"]
            /\ UNCHANGED lres
    /\ UNCHANGED <<MODEL, modelLock, modelPoisoned, MODEL_PATH, CONTEXT_SIZE,
                   loadPoisoned, CURRENT_MODEL, handles, lpath, lctx, lnew>>
    /\ UNCHANGED <<upc, genVars, SEED_COUNTER, STOP_GENERATION, events, stopVars>>
    /\ UNCHANGED extVars

\* llm.rs:183 -> 254-259
LoadUnloadSlot(l) ==
    /\ lpc[l] = "unload_model"
    /\ UnloadModelSlot
    /\ lpc' = [lpc EXCEPT ![l] = "unload_path"]
    /\ UNCHANGED <<modelLock, modelPoisoned, MODEL_PATH, CONTEXT_SIZE,
                   LOAD_MODEL_LOCK, loadPoisoned, CURRENT_MODEL, handles>>
    /\ UNCHANGED <<lpath, lctx, lnew, lres, lpre>>
    /\ UNCHANGED <<upc, genVars, SEED_COUNTER, STOP_GENERATION, events, stopVars>>
    /\ UNCHANGED extVars

\* the guard of LOAD_MODEL_LOCK is dropped when load_model returns
LoadReturn(l, result) ==
    /\ LOAD_MODEL_LOCK' = Free
    /\ lres' = [lres EXCEPT ![l] = result]
    /\ lpc' = [lpc EXCEPT ![l] = "done"]

\* llm.rs:183 -> 261-265, then llm.rs:185-219: the stored path is cleared;
\* then, all local to the task, the pause, the banner (which slices the path),
\* the existence check and LlamaModel::load_from_file, which succeeds
\* (loaded) or fails as the runtime decides
LoadUnloadPath(l, loaded) ==
    /\ lpc[l] = "unload_path"
    /\ UnloadModelPath
    /\ IF ~PathSliceOk(lpath[l])
       THEN \* panic with the guard held: the lock is poisoned, the task fails
            /\ LoadReturn(l, "TaskJoinError")
            /\ loadPoisoned' = TRUE
            /\ UNCHANGED <<handles, lnew>>
       ELSE IF ~PathExists(lpath[l])
       THEN /\ LoadReturn(l, "FileNotFound")
            /\ UNCHANGED <<loadPoisoned, handles, lnew>>
       ELSE IF loaded
       THEN /\ handles' = Append(handles, <<lpath[l], lctx[l]>>)
            /\ lnew' = [lnew EXCEPT ![l] = Len(handles) + 1]
            /\ lpc' = [lpc EXCEPT ![l] = "store_model"]
            /\ UNCHANGED <<LOAD_MODEL_LOCK, loadPoisoned, lres>>
       ELSE /\ LoadReturn(l, "LoadFailed")
            /\ UNCHANGED <<loadPoisoned, handles, lnew>>
    /\ UNCHANGED <<MODEL, modelLock, modelPoisoned, CONTEXT_SIZE, CURRENT_MODEL>>
    /\ UNCHANGED <<lpath, lctx, lpre>>
    /\ UNCHANGED <<upc, genVars, SEED_COUNTER, STOP_GENERATION, events, stopVars>>
    /\ UNCHANGED extVars

\* llm.rs:221-230: store the model under MODEL's mutex; a poisoned mutex is
\* an error and the new model is dropped
LoadStoreModel(l) ==
    /\ lpc[l] = "store_model"
    /\ IF modelPoisoned
       THEN /\ LoadReturn(l, "ModelLockFailed")
            /\ lnew' = [lnew EXCEPT ![l] = NoModel]
            /\ UNCHANGED MODEL
       ELSE /\ ModelLockAvailable
            /\ MODEL' = lnew[l]
            /\ lpc' = [lpc EXCEPT ![l] = "store_path"]
            /\ UNCHANGED <<LOAD_MODEL_LOCK, lres, lnew>>
    /\ UNCHANGED <<modelLock, modelPoisoned, MODEL_PATH, CONTEXT_SIZE, loadPoisoned,
                   CURRENT_MODEL, handles>>
    /\ UNCHANGED <<lpath, lctx, lpre>>
    /\ UNCHANGED <<upc, genVars, SEED_COUNTER, STOP_GENERATION, events, stopVars>>
    /\ UNCHANGED extVars

\* llm.rs:232-236
LoadStorePath(l) ==
    /\ lpc[l] = "store_path"
    /\ MODEL_PATH' = lpath[l]
    /\ lpc' = [lpc EXCEPT ![l] = "store_ctx"]
    /\ UNCHANGED <<MODEL, modelLock, modelPoisoned, CONTEXT_SIZE,
                   LOAD_MODEL_LOCK, loadPoisoned, CURRENT_MODEL, handles>>
    /\ UNCHANGED <<lpath, lctx, lnew, lres, lpre>>
    /\ UNCHANGED <<upc, genVars, SEED_COUNTER, STOP_GENERATION, events, stopVars>>
    /\ UNCHANGED extVars

\* llm.rs:238-250
LoadStoreCtx(l) ==
    /\ lpc[l] = "store_ctx"
    /\ CONTEXT_SIZE' = ContextAsU32(lctx[l])
    /\ LoadReturn(l, "Ok")
    /\ UNCHANGED <<MODEL, modelLock, modelPoisoned, MODEL_PATH,
                   loadPoisoned, CURRENT_MODEL, handles>>
    /\ UNCHANGED <<lpath, lctx, lnew, lpre>>
    /\ UNCHANGED <<upc, genVars, SEED_COUNTER, STOP_GENERATION, events, stopVars>>
    /\ UNCHANGED extVars

(***************************************************************************)
(* commands::unload_model (commands.rs:215-223): clears the tracked name   *)
(* and calls llm::unload_model directly, without LOAD_MODEL_LOCK.          *)
(***************************************************************************)
UnloadCommand(u) ==
    /\ upc[u] = "idle"
    /\ CURRENT_MODEL' = <<>>
    /\ upc' = [upc EXCEPT ![u] = "unload_model"]
    /\ UNCHANGED <<MODEL, modelLock, modelPoisoned, MODEL_PATH, CONTEXT_SIZE,
                   LOAD_MODEL_LOCK, loadPoisoned, handles>>
    /\ UNCHANGED <<loadVars, genVars, SEED_COUNTER, STOP_GENERATION, events, stopVars>>
    /\ UNCHANGED extVars

UnloadSlot(u) ==
    /\ upc[u] = "unload_model"
    /\ UnloadModelSlot
    /\ upc' = [upc EXCEPT ![u] = "unload_path"]
    /\ UNCHANGED <<modelLock, modelPoisoned, MODEL_PATH, CONTEXT_SIZE,
                   LOAD_MODEL_LOCK, loadPoisoned, CURRENT_MODEL, handles>>
    /\ UNCHANGED <<loadVars, genVars, SEED_COUNTER, STOP_GENERATION, events, stopVars>>
    /\ UNCHANGED extVars

UnloadPath(u) ==
    /\ upc[u] = "unload_path"
    /\ UnloadModelPath
    /\ upc' = [upc EXCEPT ![u] = "done"]
    /\ UNCHANGED <<MODEL, modelLock, modelPoisoned, CONTEXT_SIZE,
                   LOAD_MODEL_LOCK, loadPoisoned, CURRENT_MODEL, handles>>
    /\ UNCHANGED <<loadVars, genVars, SEED_COUNTER, STOP_GENERATION, events, stopVars>>
    /\ UNCHANGED extVars

InLoop(g) == gpc[g] = "loop"

(***************************************************************************)
(* commands::generate (commands.rs:613-689) and llm::generate              *)
(* (llm.rs:275-393).                                                        *)
(***************************************************************************)
\* commands.rs:622-659: reset the flag, build the prompt, spawn the task
GenerateCommand(g, temperature, max_tokens) ==
    /\ gpc[g] = "idle"
    /\ STOP_GENERATION' = FALSE
    /\ flagSet' = [h \in Gens |-> FALSE]
    /\ gtemp' = [gtemp EXCEPT ![g] = temperature]
    /\ gmax' = [gmax EXCEPT ![g] = max_tokens]
    /\ gpc' = [gpc EXCEPT ![g] = "is_loaded"]
    /\ UNCHANGED <<gmodel, gctx, giter, gacc, gtok, gres, gerr, gexit, gfrags>>
    /\ UNCHANGED <<lifeVars, loadVars, upc, SEED_COUNTER, events>>
    /\ UNCHANGED <<stopReq, cbAfter, emitAfter, iterSince>>
    /\ UNCHANGED extVars

\* llm::generate returns: its arguments and locals, the guard of MODEL's
\* mutex among them, are dropped
GenReturn(g, result, error, exit) ==
    /\ modelLock' = IF modelLock = g THEN Free ELSE modelLock
    /\ gres' = [gres EXCEPT ![g] = result]
    /\ gerr' = [gerr EXCEPT ![g] = error]
    /\ gexit' = [gexit EXCEPT ![g] = exit]
    /\ gtemp' = [gtemp EXCEPT ![g] = 0]
    /\ gmax' = [gmax EXCEPT ![g] = 0]
    /\ gmodel' = [gmodel EXCEPT ![g] = NoModel]
    /\ gctx' = [gctx EXCEPT ![g] = 0]
    /\ gacc' = [gacc EXCEPT ![g] = <<>>]
    /\ giter' = [giter EXCEPT ![g] = 0]
    /\ gpc' = [gpc EXCEPT ![g] = "finish"]

\* llm.rs:268-273, 279-281: is_loaded() takes MODEL's mutex for the check;
\* a poisoned mutex reads as not loaded
GenIsLoaded(g) ==
    /\ gpc[g] = "is_loaded"
    /\ ModelLockAvailable
    /\ IF modelPoisoned \/ MODEL = NoModel
       THEN GenReturn(g, "Err", "ModelNotLoaded", "error")
       ELSE /\ gpc' = [gpc EXCEPT ![g] = "lock"]
            /\ UNCHANGED <<modelLock, gres, gerr, gexit, gtemp, gmax, gmodel, gctx,
                           gacc, giter>>
    /\ UNCHANGED <<gtok, gfrags>>
    /\ UNCHANGED <<MODEL, modelPoisoned, MODEL_PATH, CONTEXT_SIZE, LOAD_MODEL_LOCK,
                   loadPoisoned, CURRENT_MODEL, handles>>
    /\ UNCHANGED <<loadVars, upc, SEED_COUNTER, STOP_GENERATION, events, stopVars>>
    /\ UNCHANGED extVars

\* the lock of llm.rs:283-285 without the check that the slot holds a model
GenLockUnchecked(g) ==
    /\ gpc[g] = "lock"
    /\ ModelLockAvailable
    /\ IF modelPoisoned
       THEN GenReturn(g, "Err", "LockError", "error")
       ELSE /\ modelLock' = g
            /\ gmodel' = [gmodel EXCEPT ![g] = MODEL]
            /\ gpc' = [gpc EXCEPT ![g] = "read_ctx"]
            /\ UNCHANGED <<gres, gerr, gexit, gtemp, gmax, gctx, gacc, giter>>
    /\ UNCHANGED <<gtok, gfrags>>
    /\ UNCHANGED <<MODEL, modelPoisoned, MODEL_PATH, CONTEXT_SIZE, LOAD_MODEL_LOCK,
                   loadPoisoned, CURRENT_MODEL, handles>>
    /\ UNCHANGED <<loadVars, upc, SEED_COUNTER, STOP_GENERATION, events, stopVars>>
    /\ UNCHANGED extVars

\* llm.rs:283-285: take MODEL's mutex and keep the guard
GenLock(g) ==
    /\ gpc[g] = "lock"
    /\ ModelLockAvailable
    /\ IF modelPoisoned
       THEN GenReturn(g, "Err", "LockError", "error")
       ELSE IF MODEL = NoModel
       THEN GenReturn(g, "Err", "ModelNotLoaded", "error")
       ELSE /\ modelLock' = g
            /\ gmodel' = [gmodel EXCEPT ![g] = MODEL]
            /\ gpc' = [gpc EXCEPT ![g] = "read_ctx"]
            /\ UNCHANGED <<gres, gerr, gexit, gtemp, gmax, gctx, gacc, giter>>
    /\ UNCHANGED <<gtok, gfrags>>
    /\ UNCHANGED <<MODEL, modelPoisoned, MODEL_PATH, CONTEXT_SIZE, LOAD_MODEL_LOCK,
                   loadPoisoned, CURRENT_MODEL, handles>>
    /\ UNCHANGED <<loadVars, upc, SEED_COUNTER, STOP_GENERATION, events, stopVars>>
    /\ UNCHANGED extVars

\* what the runtime answers to llm.rs:296-328
PrefillOutcomes ==
    {"ok", "ContextError", "TokenizeError", "EmptyPrompt", "BatchAddError", "DecodeError"}

\* llm.rs:287-333: CONTEXT_SIZE is read under its own mutex; then, all local
\* to the task: the context, the tokenization, the prompt batch and its decode
GenPrefill(g, outcome) ==
    /\ gpc[g] = "read_ctx"
    /\ IF outcome = "ok"
       THEN /\ gctx' = [gctx EXCEPT ![g] = CONTEXT_SIZE]
            /\ gpc' = [gpc EXCEPT ![g] = "loop"]
            /\ giter' = [giter EXCEPT ![g] = 0]
            /\ gacc' = [gacc EXCEPT ![g] = <<>>]
            /\ UNCHANGED <<modelLock, gres, gerr, gexit, gtemp, gmax, gmodel>>
       ELSE GenReturn(g, "Err", outcome, "error")
    /\ UNCHANGED <<gtok, gfrags>>
    /\ UNCHANGED <<MODEL, modelPoisoned, MODEL_PATH, CONTEXT_SIZE, LOAD_MODEL_LOCK,
                   loadPoisoned, CURRENT_MODEL, handles>>
    /\ UNCHANGED <<loadVars, upc, SEED_COUNTER, STOP_GENERATION, events, stopVars>>
    /\ UNCHANGED extVars

\* commands.rs:660-667: the callback given to llm::generate; TRUE to continue
CallbackContinues == ~STOP_GENERATION

\* what the runtime answers to llm.rs:383-388
DecodeOutcomes == {"ok", "BatchAddError", "DecodeError"}

\* a sampling failure reported as an error
LoopVerdictSampleError(t, detok, called, goes_on, should_stop, decode) ==
    IF t = NoToken THEN <<"Err", "SampleFailed", "error">>
    ELSE IF IsEogToken(t) THEN <<"Ok", "none", "eos">>
    ELSE IF ~detok THEN <<"Err", "DetokenizeError", "error">>
    ELSE IF called /\ ~goes_on THEN <<"Ok", "none", "callback">>
    ELSE IF should_stop THEN <<"Ok", "none", "stop_sequence">>
    ELSE IF decode # "ok" THEN <<"Err", decode, "error">>
    ELSE <<"continue", "none", "none">>

\* llm.rs:341-388: how one pass of the loop ends: <<result, error, exit>> of
\* llm::generate when the pass leaves the loop (break: Ok; `?`: Err), or
\* "continue"
LoopVerdict(t, detok, called, goes_on, should_stop, decode) ==
    IF t = NoToken THEN <<"Ok", "none", "sample_failed">>
    ELSE IF IsEogToken(t) THEN <<"Ok", "none", "eos">>
    ELSE IF ~detok THEN <<"Err", "DetokenizeError", "error">>
    ELSE IF called /\ ~goes_on THEN <<"Ok", "none", "callback">>
    ELSE IF should_stop THEN <<"Ok", "none", "stop_sequence">>
    ELSE IF decode # "ok" THEN <<"Err", decode, "error">>
    ELSE <<"continue", "none", "none">>

\* llm.rs:335-389: one pass of `for _ in 0..max_tokens`, or its end.
\* t is what sample_with_temperature selects (NoToken: nothing), detok whether
\* token_to_piece succeeds, decode what adding and decoding the token gives.
\* The callback's load of STOP_GENERATION is the pass's one shared access.
GenIterate(g, t, detok, decode) ==
    /\ gpc[g] = "loop"
    /\ IF giter[g] >= AsUsize(gmax[g])
       THEN \* 0..max_tokens is exhausted
            /\ GenReturn(g, "Ok", "none", "max_tokens")
            /\ UNCHANGED <<SEED_COUNTER, gtok, gfrags, events, cbAfter, emitAfter, iterSince>>
       ELSE LET detokenized == t # NoToken /\ ~IsEogToken(t) /\ detok
                token_str == IF detokenized THEN TokenPiece(t) ELSE <<>>
                accumulated == gacc[g] \o token_str
                should_stop == ShouldStop(accumulated)
                clean_token == CleanToken(token_str)
                called == detokenized /\ clean_token # <<>>
                goes_on == CallbackContinues
                verdict == LoopVerdict(t, detok, called, goes_on, should_stop, decode)
            IN
            /\ SEED_COUNTER' = SeedAfterSample(gtemp[g], SEED_COUNTER)
            /\ iterSince' = [iterSince EXCEPT ![g] = IF flagSet[g] THEN @ + 1 ELSE @]
            /\ gtok' = [gtok EXCEPT ![g] = t]
            /\ gfrags' = [gfrags EXCEPT ![g] = IF called THEN Append(@, clean_token) ELSE @]
            /\ cbAfter' = [cbAfter EXCEPT ![g] = IF called /\ stopReq[g] THEN @ + 1 ELSE @]
            /\ emitAfter' = [emitAfter EXCEPT ![g] =
                   IF called /\ goes_on /\ stopReq[g] THEN @ + 1 ELSE @]
            /\ events' = IF called /\ goes_on
                         THEN Append(events, <<"llm-token", g>>)
                         ELSE events
            /\ IF verdict[1] = "continue"
               THEN /\ gacc' = [gacc EXCEPT ![g] = accumulated]
                    /\ giter' = [giter EXCEPT ![g] = @ + 1]
                    /\ UNCHANGED <<modelLock, gres, gerr, gexit, gpc,
                                   gtemp, gmax, gmodel, gctx>>
               ELSE GenReturn(g, verdict[1], verdict[2], verdict[3])
    /\ UNCHANGED <<MODEL, modelPoisoned, MODEL_PATH, CONTEXT_SIZE, LOAD_MODEL_LOCK,
                   loadPoisoned, CURRENT_MODEL, handles>>
    /\ UNCHANGED <<loadVars, upc, STOP_GENERATION, stopReq, flagSet>>
    /\ UNCHANGED extVars

\* commands.rs:669-681: both arms emit "llm-finished", then the result is returned
GenFinish(g) ==
    /\ gpc[g] = "finish"
    /\ events' = Append(events, <<"llm-finished", g>>)
    /\ gpc' = [gpc EXCEPT ![g] = "done"]
    /\ UNCHANGED <<gtemp, gmax, gmodel, gctx, giter, gacc, gtok, gres, gerr, gexit, gfrags>>
    /\ UNCHANGED <<lifeVars, loadVars, upc, SEED_COUNTER, STOP_GENERATION, stopVars>>
    /\ UNCHANGED extVars

\* commands.rs:682-684: the blocking task fails (a panic inside a runtime call
\* of llm::generate): the guard of MODEL's mutex is dropped by the unwinding,
\* which poisons the mutex, and the command returns the join error at once
GenTaskFails(g) ==
    /\ gpc[g] \in {"read_ctx", "loop"}
    /\ modelLock' = Free
    /\ modelPoisoned' = TRUE
    /\ gres' = [gres EXCEPT ![g] = "Err"]
    /\ gerr' = [gerr EXCEPT ![g] = "TaskError"]
    /\ gexit' = [gexit EXCEPT ![g] = "panic"]
    /\ gtemp' = [gtemp EXCEPT ![g] = 0]
    /\ gmax' = [gmax EXCEPT ![g] = 0]
    /\ gmodel' = [gmodel EXCEPT ![g] = NoModel]
    /\ gctx' = [gctx EXCEPT ![g] = 0]
    /\ gacc' = [gacc EXCEPT ![g] = <<>>]
    /\ giter' = [giter EXCEPT ![g] = 0]
    /\ gpc' = [gpc EXCEPT ![g] = "done"]
    /\ UNCHANGED <<gtok, gfrags>>
    /\ UNCHANGED <<MODEL, MODEL_PATH, CONTEXT_SIZE, LOAD_MODEL_LOCK,
                   loadPoisoned, CURRENT_MODEL, handles>>
    /\ UNCHANGED <<loadVars, upc, SEED_COUNTER, STOP_GENERATION, events, stopVars>>
    /\ UNCHANGED extVars

\* commands.rs:691-695 stop_generation
StopGeneration ==
    /\ STOP_GENERATION' = TRUE
    /\ stopReq' = [g \in Gens |-> stopReq[g] \/ InLoop(g)]
    /\ flagSet' = [g \in Gens |-> flagSet[g] \/ InLoop(g)]
    /\ iterSince' = [g \in Gens |-> IF flagSet[g] THEN iterSince[g] ELSE 0]
    /\ UNCHANGED <<cbAfter, emitAfter>>
    /\ UNCHANGED <<lifeVars, loadVars, upc, genVars, SEED_COUNTER, events>>
    /\ UNCHANGED extVars

(***************************************************************************)
(* Specifications.  Spec: the model lifecycle under concurrent load and    *)
(* unload commands with one generation.  SpecGen: generate and             *)
(* stop_generation requests against one loaded model.                      *)
(***************************************************************************)
\* f32 temperatures of the generate command, in tenths
Temperatures == {0, 8}

MaxTokensValues == {0, MaxIter}

LifeVocab == {TokEog, "a"}

GenVocab == {TokEog, "a", "part", "eos"}

Next ==
    \/ \E l \in Loaders, p \in PathNames, c \in ContextLengths : LoadCommand(l, p, c)
    \/ \E l \in Loaders : LoadAcquire(l)
    \/ \E l \in Loaders : LoadUnloadSlot(l)
    \/ \E l \in Loaders, loaded \in BOOLEAN : LoadUnloadPath(l, loaded)
    \/ \E l \in Loaders : LoadStoreModel(l)
    \/ \E l \in Loaders : LoadStorePath(l)
    \/ \E l \in Loaders : LoadStoreCtx(l)
    \/ \E u \in Unloaders : UnloadCommand(u)
    \/ \E u \in Unloaders : UnloadSlot(u)
    \/ \E u \in Unloaders : UnloadPath(u)
    \/ \E t \in Temperatures, m \in MaxTokensValues : GenerateCommand("g1", t, m)
    \/ GenIsLoaded("g1")
    \/ GenLock("g1")
    \/ \E o \in PrefillOutcomes : GenPrefill("g1", o)
    \/ \E t \in LifeVocab \cup {NoToken}, detok \in BOOLEAN, d \in DecodeOutcomes :
          GenIterate("g1", t, detok, d)
    \/ GenFinish("g1")
    \/ GenTaskFails("g1")

Spec == Init /\ [][Next]_vars

\* the steps of a load_model, an unload_model and a generate call after the
\* command was invoked; the panic of a generation task is not one of them
LoadStep(l) ==
    \/ LoadAcquire(l)
    \/ LoadUnloadSlot(l)
    \/ \E loaded \in BOOLEAN : LoadUnloadPath(l, loaded)
    \/ LoadStoreModel(l)
    \/ LoadStorePath(l)
    \/ LoadStoreCtx(l)

UnloadStep(u) == UnloadSlot(u) \/ UnloadPath(u)

GenStep(g) ==
    \/ GenIsLoaded(g)
    \/ GenLock(g)
    \/ GenPrefill(g, "ok")
    \/ \E t \in LifeVocab : GenIterate(g, t, TRUE, "ok")
    \/ GenFinish(g)

\* load, unload, generate and stop_generation commands in any interleaving:
\* two loads of the file that exists, one unload, one greedy generation whose
\* runtime calls succeed
NextLive ==
    \/ \E l \in Loaders : LoadCommand(l, "good", DefaultContextSize)
    \/ \E l \in Loaders : LoadStep(l)
    \/ \E u \in Unloaders : UnloadCommand(u)
    \/ \E u \in Unloaders : UnloadStep(u)
    \/ GenerateCommand("g1", 0, MaxIter)
    \/ GenStep("g1")
    \/ StopGeneration

\* every thread that has a step to take is scheduled again and again, and
\* std::sync::Mutex::lock returns once the mutex stays free; the runtime
\* calls of a step return (a step is taken as a whole)
SpecLive ==
    /\ Init /\ [][NextLive]_vars
    /\ \A l \in Loaders : WF_vars(LoadStep(l))
    /\ \A u \in Unloaders : WF_vars(UnloadStep(u))
    /\ WF_vars(GenStep("g1"))

\* generation requests start with a model loaded, or with none
InitGen == (InitLifecycle \/ LoadedLifecycle) /\ InitGeneration /\ InitExt

NextGen ==
    \/ \E g \in Gens, m \in MaxTokensValues : GenerateCommand(g, 0, m)
    \/ \E g \in Gens : GenIsLoaded(g)
    \/ \E g \in Gens : GenLock(g)
    \/ \E g \in Gens, o \in PrefillOutcomes : GenPrefill(g, o)
    \/ \E g \in Gens, t \in GenVocab \cup {NoToken}, detok \in BOOLEAN, d \in DecodeOutcomes :
          GenIterate(g, t, detok, d)
    \/ \E g \in Gens : GenFinish(g)
    \/ \E g \in Gens : GenTaskFails(g)
    \/ StopGeneration

SpecGen == InitGen /\ [][NextGen]_vars

\* max_tokens of the generate command is an i32: negative values included
TokMaxTokensValues == {-1, 0, MaxIter}

\* a pass of the loop, among the first MaxPasses of a generation
GenIterateCapped(g, t, detok, decode) ==
    /\ giter[g] < MaxPasses
    /\ GenIterate(g, t, detok, decode)

\* one generation with every kind of max_tokens
NextTok ==
    \/ \E m \in TokMaxTokensValues : GenerateCommand("g1", 0, m)
    \/ GenIsLoaded("g1")
    \/ GenLock("g1")
    \/ \E o \in PrefillOutcomes : GenPrefill("g1", o)
    \/ \E t \in GenVocab \cup {NoToken}, detok \in BOOLEAN, d \in DecodeOutcomes :
          GenIterateCapped("g1", t, detok, d)
    \/ GenFinish("g1")
    \/ GenTaskFails("g1")
    \/ StopGeneration

SpecTok == InitGen /\ [][NextTok]_vars

\* tokens with a stop sequence in their text, or with a part of one
StopVocab == {TokEog, "a", "a_eos", "eos", "lt", "gt", "eos_in_eos"}

\* one generation over the texts that hold stop sequences
NextStop ==
    \/ \E m \in TokMaxTokensValues : GenerateCommand("g1", 0, m)
    \/ GenIsLoaded("g1")
    \/ GenLock("g1")
    \/ \E o \in PrefillOutcomes : GenPrefill("g1", o)
    \/ \E t \in StopVocab \cup {NoToken}, detok \in BOOLEAN, d \in DecodeOutcomes :
          GenIterateCapped("g1", t, detok, d)
    \/ GenFinish("g1")
    \/ GenTaskFails("g1")
    \/ StopGeneration

SpecStop == InitGen /\ [][NextStop]_vars

(***************************************************************************)
(* Properties.                                                              *)
(***************************************************************************)
InLoadModel(l) ==
    lpc[l] \in {"unload_model", "unload_path", "store_model", "store_path", "store_ctx"}

\* between the two critical sections of llm::unload_model
InUnloadModel(u) == upc[u] = "unload_path"

HoldsModel(g) == gpc[g] \in {"read_ctx", "loop"}

EventCount(kind, g) == Cardinality({i \in 1..Len(events) : events[i] = <<kind, g>>})

RuntimeErrors ==
    {"ContextError", "TokenizeError", "EmptyPrompt", "BatchAddError", "DecodeError",
     "DetokenizeError"}

\* C1: a load_model call that returns the file-not-found error leaves the
\* lifecycle state as it was when the call entered its exclusive section: a
\* model loaded then is still loaded, with the same stored path and context
\* size (no unload command having been invoked)
C1_FailedLoadKeepsModel ==
    [][\A l \in Loaders :
         (/\ lpc[l] # "done"
          /\ lpc'[l] = "done"
          /\ lres'[l] = "FileNotFound"
          /\ lpre[l][1] # NoModel
          /\ \A u \in Unloaders : upc[u] = "idle")
         => <<MODEL', MODEL_PATH', CONTEXT_SIZE'>> = lpre[l]]_vars

\* C2: at most one execution of llm::load_model or llm::unload_model (the one
\* called by the unload command included) is in progress at any time, and a
\* load about to store its model finds the slot empty
C2_LoadUnloadExclusive ==
    /\ Cardinality({l \in Loaders : InLoadModel(l)} \cup {u \in Unloaders : InUnloadModel(u)}) <= 1
    /\ \A l \in Loaders : lpc[l] = "store_model" => MODEL = NoModel

\* C3: from the moment llm::generate has obtained the loaded model until it
\* returns, it holds MODEL's mutex and the slot holds the handle it obtained
C3_GenerationHoldsModel ==
    \A g \in Gens :
        HoldsModel(g) => /\ modelLock = g
                         /\ gmodel[g] # NoModel
                         /\ MODEL = gmodel[g]

\* C3 witness: a generation is past its first pass of the loop while an
\* unload command and a load_model call wait to clear the slot
C3_Witness ==
    /\ gpc["g1"] = "loop"
    /\ giter["g1"] >= 1
    /\ \E u \in Unloaders : upc[u] = "unload_model"
    /\ \E l \in Loaders : lpc[l] = "unload_model"

\* C4: a generation that has obtained the loaded model finds the stored path,
\* and reads the context size, that were passed to the load_model call which
\* installed that model
C4_NoPartialInstall ==
    \A g \in Gens :
        /\ gpc[g] = "read_ctx" => MODEL_PATH = handles[gmodel[g]][1]
        /\ gpc[g] = "loop" => gctx[g] = ContextAsU32(handles[gmodel[g]][2])

\* C5: every generate command that has returned emitted exactly one
\* "llm-finished" event, after all its "llm-token" events
C5_ExactlyOneFinished ==
    \A g \in Gens :
        /\ EventCount("llm-finished", g) <= 1
        /\ gpc[g] = "done" => EventCount("llm-finished", g) = 1
        /\ \A i, j \in 1..Len(events) :
              events[i] = <<"llm-token", g>> /\ events[j] = <<"llm-finished", g>> => i < j

\* C6: when stop_generation has set the flag during a generation's loop, the
\* next fragment callback is the last one: after it the generation has
\* returned Ok and its command emits "llm-finished"
C6_NextCallbackIsLast ==
    \A g \in Gens :
        cbAfter[g] >= 1 =>
            /\ cbAfter[g] = 1
            /\ gpc[g] \in {"finish", "done"}
            /\ gres[g] = "Ok"
            /\ gpc[g] = "done" => EventCount("llm-finished", g) = 1

\* C7: a stop request made while a generation runs is never lost: the
\* generation invokes at most one more fragment callback and emits no
\* fragment after the request, whatever other requests are started
C7_StopNeverLost ==
    \A g \in Gens : stopReq[g] => cbAfter[g] <= 1 /\ emitAfter[g] = 0

\* C8: while the cancellation flag, set during a generation's loop, stays set,
\* that generation begins at most one more pass of the loop
C8_AtMostOneMorePass ==
    \A g \in Gens : flagSet[g] => iterSince[g] <= 1

\* C9 as claimed: llm::generate returns Ok when it ends by end-of-sequence, a
\* stop sequence, the callback or max_tokens; it returns Err only when no model
\* is loaded (the slot is empty) or a runtime step fails; after an Err no
\* fragment callback is invoked; an end-of-sequence token produces no fragment
C9_ResultKinds ==
    /\ [](\A g \in Gens :
            /\ gexit[g] \in {"eos", "stop_sequence", "callback", "max_tokens"} => gres[g] = "Ok"
            /\ (gres[g] = "Err" /\ gexit[g] # "panic") =>
                   gerr[g] \in {"ModelNotLoaded"} \cup RuntimeErrors)
    /\ [][\A g \in Gens :
            /\ (gerr[g] # "ModelNotLoaded" /\ gerr'[g] = "ModelNotLoaded") => MODEL = NoModel
            /\ gres[g] = "Err" => gfrags'[g] = gfrags[g]
            /\ (gexit[g] # "eos" /\ gexit'[g] = "eos") =>
                   gfrags'[g] = gfrags[g] /\ events' = events]_vars

\* C9 amended: as C9, with one more cause of Err: MODEL's mutex is poisoned
\* (a generation task panicked while it held the model); is_loaded() then
\* reads as not loaded and lock() fails
C9_ResultKindsAmended ==
    /\ [](\A g \in Gens :
            /\ gexit[g] \in {"eos", "stop_sequence", "callback", "max_tokens"} => gres[g] = "Ok"
            /\ (gres[g] = "Err" /\ gexit[g] # "panic") =>
                   gerr[g] \in {"ModelNotLoaded", "LockError"} \cup RuntimeErrors)
    /\ [][\A g \in Gens :
            /\ (gerr[g] # "ModelNotLoaded" /\ gerr'[g] = "ModelNotLoaded") =>
                   MODEL = NoModel \/ modelPoisoned
            /\ gres[g] = "Err" => gfrags'[g] = gfrags[g]
            /\ (gexit[g] # "eos" /\ gexit'[g] = "eos") =>
                   gfrags'[g] = gfrags[g] /\ events' = events]_vars

\* C9 witness: a generation task panicked while it held the model, and the
\* other generation's llm::generate returned the error of the poisoned mutex
C9_Witness ==
    \E g, h \in Gens :
        /\ gerr[g] = "LockError"
        /\ gpc[g] = "finish"
        /\ gexit[h] = "panic"

\* C10: a generation that ends because sampling selected no token returns an
\* error result
C10_SampleFailureReported ==
    \A g \in Gens : gexit[g] = "sample_failed" => gres[g] = "Err"

(***************************************************************************)
(* embeddings.rs: the semantic index.  A text is the sequence of its UTF-8 *)
(* bytes; a u128 is the sequence of its 16 bytes, least significant first.  *)
(***************************************************************************)
\* the texts that are saved and indexed: "hi", "yo"
ContentHi == <<104, 105>>

ContentYo == <<121, 111>>

Contents == {ContentHi, ContentYo}

RECURSIVE BitXor(_, _)
BitXor(a, b) ==
    IF a = 0 THEN b
    ELSE IF b = 0 THEN a
    ELSE (((a % 2) + (b % 2)) % 2) + 2 * BitXor(a \div 2, b \div 2)

\* embeddings.rs:279  0x100000001b3 = 2^40 + 435
FnvPrimeLow == 435

FnvPrimeShift == 5

U128Bytes == 16

\* hash.wrapping_mul(0x100000001b3): byte i of h * 435 + (h << 40), with the
\* carry of the bytes below it; bytes above the 16th are dropped
RECURSIVE MulCarry(_, _)
MulCarry(h, i) ==
    IF i = 0 THEN 0
    ELSE (h[i] * FnvPrimeLow
          + (IF i > FnvPrimeShift THEN h[i - FnvPrimeShift] ELSE 0)
          + MulCarry(h, i - 1)) \div 256

WrappingMulPrime(h) ==
    [i \in 1..U128Bytes |->
        (h[i] * FnvPrimeLow
         + (IF i > FnvPrimeShift THEN h[i - FnvPrimeShift] ELSE 0)
         + MulCarry(h, i - 1)) % 256]

\* embeddings.rs:274-282 md5_hash (FNV-1a over the bytes of content)
RECURSIVE HashFrom(_, _)
HashFrom(hash, bytes) ==
    IF bytes = <<>> THEN hash
    ELSE HashFrom(WrappingMulPrime([hash EXCEPT ![1] = BitXor(@, Head(bytes))]), Tail(bytes))

\* embeddings.rs:276: the offset basis 0xcbf29ce484222325 as u128
md5_hash(content) ==
    HashFrom(<<37, 35, 34, 132, 228, 156, 242, 203, 0, 0, 0, 0, 0, 0, 0, 0>>, content)

\* format!("{:x}", h): the hexadecimal digits, most significant first, without
\* leading zeros ("0" for zero)
RECURSIVE HexFrom(_, _)
HexFrom(h, i) ==
    IF i = 0 THEN <<>>
    ELSE <<h[i] \div 16, h[i] % 16>> \o HexFrom(h, i - 1)

RECURSIVE StripZeros(_)
StripZeros(d) ==
    IF Len(d) > 1 /\ Head(d) = 0 THEN StripZeros(Tail(d)) ELSE d

\* the content_hash column of each text: format!("{:x}", md5_hash(content))
ContentHashes == [c \in Contents |-> StripZeros(HexFrom(md5_hash(c), U128Bytes))]

ContentHash(content) == ContentHashes[content]

\* an f32 is its 32 bits (f32::to_bits), held as the two 16-bit halves
\* <<high, low>>; the f32 of the numbers the embedding vectors of the model
\* are made of
F32Bits(x) ==
    CASE x = 0 -> <<0, 0>>
      [] x = 1 -> <<16256, 0>>
      [] x = 2 -> <<16384, 0>>
      [] x = -1 -> <<49024, 0>>
      [] x = 3 -> <<16448, 0>>
      [] x = 4 -> <<16512, 0>>
      [] x = 8 -> <<16640, 0>>
      [] x = 15 -> <<16752, 0>>

\* a Vec<f32> of such numbers, and the numbers a Vec<f32> holds
F32Vec(v) == [i \in DOMAIN v |-> F32Bits(v[i])]

F32Numbers(floats) ==
    [i \in DOMAIN floats |-> CHOOSE x \in {0, 1, 2, -1, 3, 4, 8, 15} : F32Bits(x) = floats[i]]

\* f32::to_le_bytes: the 4 bytes of the bits, least significant first
F32Bytes(f) == <<f[2] % 256, f[2] \div 256, f[1] % 256, f[1] \div 256>>

\* from_le_bytes read with the most significant byte first
F32FromBytesBigEndian(b) == <<b[1] * 256 + b[2], b[3] * 256 + b[4]>>

\* f32::from_le_bytes
F32FromBytes(b) == <<b[4] * 256 + b[3], b[2] * 256 + b[1]>>

\* embeddings.rs:240-244 floats_to_bytes
RECURSIVE floats_to_bytes(_)
floats_to_bytes(floats) ==
    IF floats = <<>> THEN <<>> ELSE F32Bytes(Head(floats)) \o floats_to_bytes(Tail(floats))

\* embeddings.rs:247-254 bytes_to_floats: chunks_exact(4) drops a short tail
RECURSIVE bytes_to_floats(_)
bytes_to_floats(bytes) ==
    IF Len(bytes) < 4 THEN <<>>
    ELSE <<F32FromBytes(SubSeq(bytes, 1, 4))>> \o bytes_to_floats(SubSeq(bytes, 5, Len(bytes)))

\* the embedding model's vector for "passage: " + content
PassageVector(content) ==
    CASE content = ContentHi -> <<1, 0>>
      [] content = ContentYo -> <<0, 1>>

\* the embeddings table has one row per (source_type, source_id): a row that
\* an insert for (source_type, source_id) replaces
EmbeddingsConflict(row, source_type, source_id) ==
    row.source_type = source_type /\ row.source_id = source_id

\* embeddings.rs:112-131 store_embedding: INSERT OR REPLACE
store_embedding(rows, source_type, source_id, content, vector) ==
    LET kept == {r \in rows : ~EmbeddingsConflict(r, source_type, source_id)}
    IN kept \cup {[source_type |-> source_type, source_id |-> source_id,
                   content_hash |-> ContentHash(content), vector |-> floats_to_bytes(F32Vec(vector))]}

\* a lookup that never finds a record
HasEmbeddingNever(rows, source_type, source_id, content, lookup) == FALSE

\* a lookup by (source_type, source_id) alone
HasEmbeddingAnyHash(rows, source_type, source_id, content, lookup) ==
    /\ lookup = "ok"
    /\ \E r \in rows : r.source_type = source_type /\ r.source_id = source_id

\* embeddings.rs:134-144 has_embedding, with the unwrap_or(false) of its
\* callers: a query that fails reads as not indexed
has_embedding(rows, source_type, source_id, content, lookup) ==
    /\ lookup = "ok"
    /\ \E r \in rows : /\ r.source_type = source_type
                      /\ r.source_id = source_id
                      /\ r.content_hash = ContentHash(content)

\* what a statement on the connection and the embedding model can answer
QueryOutcomes == {"ok", "fail"}

\* index_message / index_memory storing a vector though embed_passage failed
IndexEntryStoresAnyway(source_type, source_id, content, lookup, embed, store) ==
    LET had == \E r \in embeddings : /\ r.source_type = source_type
                                    /\ r.source_id = source_id
                                    /\ r.content_hash = ContentHash(content)
        other == \E r \in embeddings : /\ r.source_type = source_type
                                      /\ r.source_id = source_id
                                      /\ r.content_hash # ContentHash(content)
        found == has_embedding(embeddings, source_type, source_id, content, lookup)
        embedded == ~found /\ EMBEDDER
        wrote == embedded /\ store = "ok"
        result == IF found THEN "Ok"
                  ELSE IF ~EMBEDDER THEN "EmbedderNotInitialized"
                  ELSE IF embed # "ok" THEN "EmbeddingFailed"
                  ELSE IF store # "ok" THEN "StoreFailed"
                  ELSE "Ok"
    IN
    /\ embeddings' = IF wrote
                     THEN store_embedding(embeddings, source_type, source_id, content,
                                          PassageVector(content))
                     ELSE embeddings
    /\ idxLast' = [had |-> had, other |-> other, lookup |-> lookup, embedded |-> embedded,
                   wrote |-> wrote, result |-> result]
    /\ lastIndexed' = IF result = "Ok"
                      THEN [lastIndexed EXCEPT ![<<source_type, source_id>>] = content]
                      ELSE lastIndexed

\* embeddings.rs:294-320 index_message / index_memory on the connection
IndexEntry(source_type, source_id, content, lookup, embed, store) ==
    LET had == \E r \in embeddings : /\ r.source_type = source_type
                                    /\ r.source_id = source_id
                                    /\ r.content_hash = ContentHash(content)
        other == \E r \in embeddings : /\ r.source_type = source_type
                                      /\ r.source_id = source_id
                                      /\ r.content_hash # ContentHash(content)
        found == has_embedding(embeddings, source_type, source_id, content, lookup)
        embedded == ~found /\ EMBEDDER
        wrote == embedded /\ embed = "ok" /\ store = "ok"
        result == IF found THEN "Ok"
                  ELSE IF ~EMBEDDER THEN "EmbedderNotInitialized"
                  ELSE IF embed # "ok" THEN "EmbeddingFailed"
                  ELSE IF store # "ok" THEN "StoreFailed"
                  ELSE "Ok"
    IN
    /\ embeddings' = IF wrote
                     THEN store_embedding(embeddings, source_type, source_id, content,
                                          PassageVector(content))
                     ELSE embeddings
    /\ idxLast' = [had |-> had, other |-> other, lookup |-> lookup, embedded |-> embedded,
                   wrote |-> wrote, result |-> result]
    /\ lastIndexed' = IF result = "Ok"
                      THEN [lastIndexed EXCEPT ![<<source_type, source_id>>] = content]
                      ELSE lastIndexed

coreVars == <<lifeVars, loadVars, upc, genVars, SEED_COUNTER, STOP_GENERATION, events, stopVars>>

\* no index_all_messages holds the connection
DbFree == dbHolder = "none"

\* embeddings.rs:34-52 init_embedder, called by the thread main.rs:51 spawns
InitEmbedder ==
    /\ ~EMBEDDER
    /\ EMBEDDER' = TRUE
    /\ UNCHANGED <<sessions, nextSession, messages, nextMessage, memory, nextMemory,
                   embeddings, tasks, iapc, iasnap, dbHolder, idxLast, lastIndexed, saveLog>>
    /\ UNCHANGED <<coreVars, pureVars>>

\* commands.rs:264-266, database.rs:265-275 create_session
CreateSession ==
    /\ DbFree
    /\ nextSession <= MaxSessions
    /\ sessions' = sessions \cup {nextSession}
    /\ nextSession' = nextSession + 1
    /\ UNCHANGED <<messages, nextMessage, memory, nextMemory, embeddings, EMBEDDER, tasks,
                   iapc, iasnap, dbHolder, idxLast, lastIndexed, saveLog>>
    /\ UNCHANGED <<coreVars, pureVars>>

\* the result save_message gave for msg_id, once the indexing thread has seen
\* the indexing result
AfterIndexingReturned(log, msg_id, result) ==
    IF result = "Ok" THEN log
    ELSE (log \ {[msg_id |-> msg_id, result |-> "Ok"]}) \cup {[msg_id |-> msg_id, result |-> "Err"]}

\* commands.rs:293-297: the indexing result is printed, nothing else
AfterIndexing(log, msg_id, result) == log

\* commands.rs:280-302 save_message with database.rs:304-319 insert_message:
\* the insert (refused by the foreign key when the session does not exist, or
\* by the database), the indexing thread spawned, Ok(msg_id) returned
SaveMessage(session_id, content, db) ==
    /\ DbFree
    /\ nextMessage <= MaxMessages
    /\ IF db = "ok" /\ session_id \in sessions
       THEN /\ messages' = messages \cup
                   {[id |-> nextMessage, session_id |-> session_id, content |-> content]}
            /\ nextMessage' = nextMessage + 1
            /\ tasks' = tasks \cup {[id |-> nextMessage, content |-> content]}
            /\ saveLog' = saveLog \cup {[msg_id |-> nextMessage, result |-> "Ok"]}
       ELSE \* Err is returned, nothing was written
            UNCHANGED <<messages, nextMessage, tasks, saveLog>>
    /\ UNCHANGED <<sessions, nextSession, memory, nextMemory, embeddings, EMBEDDER,
                   iapc, iasnap, dbHolder, idxLast, lastIndexed>>
    /\ UNCHANGED <<coreVars, pureVars>>

\* commands.rs:288-298: the spawned thread indexes the message on the
\* connection; db is what with_connection itself answers
IndexTask(t, db, lookup, embed, store) ==
    /\ DbFree
    /\ t \in tasks
    /\ tasks' = tasks \ {t}
    /\ IF db = "ok"
       THEN /\ IndexEntry("message", t.id, t.content, lookup, embed, store)
            /\ saveLog' = AfterIndexing(saveLog, t.id, idxLast'.result)
       ELSE /\ saveLog' = AfterIndexing(saveLog, t.id, "DbError")
            /\ UNCHANGED <<embeddings, idxLast, lastIndexed>>
    /\ UNCHANGED <<sessions, nextSession, messages, nextMessage, memory, nextMemory,
                   EMBEDDER, iapc, iasnap, dbHolder>>
    /\ UNCHANGED <<coreVars, pureVars>>

\* commands.rs:319-322, database.rs:396-406 add_memory (the session must exist)
AddMemory(content, session_id) ==
    /\ DbFree
    /\ nextMemory <= MaxMemories
    /\ session_id \in sessions
    /\ memory' = memory \cup {[id |-> nextMemory, content |-> content]}
    /\ nextMemory' = nextMemory + 1
    /\ UNCHANGED <<sessions, nextSession, messages, nextMessage, embeddings, EMBEDDER, tasks,
                   iapc, iasnap, dbHolder, idxLast, lastIndexed, saveLog>>
    /\ UNCHANGED <<coreVars, pureVars>>

\* embeddings.rs:309-320 index_memory for a stored memory fact, with the
\* content the caller passes
IndexMemory(m, content, lookup, embed, store) ==
    /\ DbFree
    /\ m \in memory
    /\ IndexEntry("memory", m.id, content, lookup, embed, store)
    /\ UNCHANGED <<sessions, nextSession, messages, nextMessage, memory, nextMemory,
                   EMBEDDER, tasks, iapc, iasnap, dbHolder, saveLog>>
    /\ UNCHANGED <<coreVars, pureVars>>

\* commands.rs:268-271, database.rs:277-282 delete_session
DeleteSession(session_id) ==
    /\ DbFree
    /\ session_id \in sessions
    /\ messages' = {m \in messages : m.session_id # session_id}
    /\ sessions' = sessions \ {session_id}
    /\ UNCHANGED <<nextSession, nextMessage, memory, nextMemory, embeddings, EMBEDDER, tasks,
                   iapc, iasnap, dbHolder, idxLast, lastIndexed, saveLog>>
    /\ UNCHANGED <<coreVars, pureVars>>

\* commands.rs:343-346, database.rs:475-479 delete_memory
DeleteMemory(m) ==
    /\ DbFree
    /\ m \in memory
    /\ memory' = memory \ {m}
    /\ UNCHANGED <<sessions, nextSession, messages, nextMessage, nextMemory, embeddings,
                   EMBEDDER, tasks, iapc, iasnap, dbHolder, idxLast, lastIndexed, saveLog>>
    /\ UNCHANGED <<coreVars, pureVars>>

\* embeddings.rs:204-210 delete_embedding, as a caller holding the connection
\* may call it (no command of commands.rs does)
DeleteEmbedding(key) ==
    /\ DbFree
    /\ \E r \in embeddings : r.source_type = key[1] /\ r.source_id = key[2]
    /\ embeddings' = {r \in embeddings : ~(r.source_type = key[1] /\ r.source_id = key[2])}
    /\ lastIndexed' = [lastIndexed EXCEPT ![key] = NoContent]
    /\ UNCHANGED <<sessions, nextSession, messages, nextMessage, memory, nextMemory,
                   EMBEDDER, tasks, iapc, iasnap, dbHolder, idxLast, saveLog>>
    /\ UNCHANGED <<coreVars, pureVars>>

\* the (id, content) of the stored messages, by id
RECURSIVE MessagesForIndexing(_)
MessagesForIndexing(rows) ==
    IF rows = {} THEN <<>>
    ELSE LET first == CHOOSE m \in rows : \A o \in rows : m.id <= o.id
         IN <<[id |-> first.id, content |-> first.content]>> \o MessagesForIndexing(rows \ {first})

\* commands.rs:822-824 index_all_messages: read the messages
IndexAllRead ==
    /\ DbFree
    /\ iapc = "idle"
    /\ iasnap' = MessagesForIndexing(messages)
    /\ iapc' = "read"
    /\ UNCHANGED <<sessions, nextSession, messages, nextMessage, memory, nextMemory,
                   embeddings, EMBEDDER, tasks, dbHolder, idxLast, lastIndexed, saveLog>>
    /\ UNCHANGED <<coreVars, pureVars>>

\* commands.rs:828, 836: with_connection takes the connection for the whole
\* loop, or fails
IndexAllLock(db) ==
    /\ DbFree
    /\ iapc = "read"
    /\ IF db = "ok"
       THEN /\ dbHolder' = "index_all"
            /\ iapc' = "loop"
            /\ UNCHANGED iasnap
       ELSE /\ iapc' = "idle"
            /\ iasnap' = <<>>
            /\ UNCHANGED dbHolder
    /\ UNCHANGED <<sessions, nextSession, messages, nextMessage, memory, nextMemory,
                   embeddings, EMBEDDER, tasks, idxLast, lastIndexed, saveLog>>
    /\ UNCHANGED <<coreVars, pureVars>>

\* commands.rs:829-834: one message of the loop
IndexAllStep(lookup, embed, store) ==
    /\ iapc = "loop"
    /\ iasnap # <<>>
    /\ IndexEntry("message", Head(iasnap).id, Head(iasnap).content, lookup, embed, store)
    /\ iasnap' = Tail(iasnap)
    /\ UNCHANGED <<sessions, nextSession, messages, nextMessage, memory, nextMemory,
                   EMBEDDER, tasks, iapc, dbHolder, saveLog>>
    /\ UNCHANGED <<coreVars, pureVars>>

\* commands.rs:835-838: the loop is over, the connection is released
IndexAllEnd ==
    /\ iapc = "loop"
    /\ iasnap = <<>>
    /\ iapc' = "idle"
    /\ dbHolder' = "none"
    /\ UNCHANGED <<sessions, nextSession, messages, nextMessage, memory, nextMemory,
                   embeddings, EMBEDDER, tasks, iasnap, idxLast, lastIndexed, saveLog>>
    /\ UNCHANGED <<coreVars, pureVars>>

NextIndex ==
    \/ InitEmbedder
    \/ CreateSession
    \/ \E s \in 1..MaxSessions, c \in Contents, db \in QueryOutcomes : SaveMessage(s, c, db)
    \/ \E t \in tasks, db, lookup, embed, store \in QueryOutcomes :
          IndexTask(t, db, lookup, embed, store)
    \/ \E c \in Contents, s \in 1..MaxSessions : AddMemory(c, s)
    \/ \E m \in memory, c \in Contents, lookup, embed, store \in QueryOutcomes :
          IndexMemory(m, c, lookup, embed, store)
    \/ \E s \in 1..MaxSessions : DeleteSession(s)
    \/ \E m \in memory : DeleteMemory(m)
    \/ \E k \in IndexKeys : DeleteEmbedding(k)
    \/ IndexAllRead
    \/ \E db \in QueryOutcomes : IndexAllLock(db)
    \/ \E lookup, embed, store \in QueryOutcomes : IndexAllStep(lookup, embed, store)
    \/ IndexAllEnd

SpecIndex == Init /\ [][NextIndex]_vars

(***************************************************************************)
(* embeddings.rs: semantic_search.  A similarity is the fraction            *)
(* <<numerator, denominator>> with a positive denominator; the vectors of   *)
(* the model have norms that an f32 holds exactly, so the f32 quotient the  *)
(* code computes orders as the fraction does.                               *)
(***************************************************************************)
RECURSIVE Dot(_, _)
Dot(a, b) ==
    IF a = <<>> THEN 0 ELSE Head(a) * Head(b) + Dot(Tail(a), Tail(b))

\* cosine_similarity's &[f32]: a component is <<m, e>> for m * 2^e, and the
\* components of one vector have one exponent; Scaled(m, 0) are the integers m
Scaled(m, e) == [i \in 1..Len(m) |-> <<m[i], e>>]

\* f32: a product m * 2^e of the model (m # 0) is infinite from e = 128 on
\* (f32::MAX is under 2^128) and rounds to zero from e = -150 down (the least
\* positive f32 is 2^-149)
F32MaxExp == 128

F32MinExp == -150

\* cosine_similarity without the division by the norms
CosineOfDot(a, b) ==
    IF Len(a) # Len(b) \/ a = <<>> THEN <<0, 1>>
    ELSE <<Dot([i \in 1..Len(a) |-> a[i][1]], [i \in 1..Len(b) |-> b[i][1]]), 1>>

\* embeddings.rs:257-271 cosine_similarity; the f32 returned is the fraction
\* <<numerator, denominator>>, <<0, 0>> for NaN
cosine_similarity(a, b) ==
    IF Len(a) # Len(b) \/ a = <<>> THEN <<0, 1>>
    ELSE LET \* f32::sqrt of a sum of squares (a perfect square for the model's vectors)
             Sqrt(n) == CHOOSE r \in 0..n : r * r = n
             ma == [i \in 1..Len(a) |-> a[i][1]]
             mb == [i \in 1..Len(b) |-> b[i][1]]
             ea == a[1][2]
             eb == b[1][2]
             \* x.iter().zip(y).map(|(x, y)| x * y).sum::<f32>() is infinite or NaN
             \* (a product is), is zero, or is Dot(mx, my) * 2^e
             SumInfinite(mx, my, e) ==
                 e >= F32MaxExp /\ \E i \in 1..Len(mx) : mx[i] * my[i] # 0
             SumZero(mx, my, e) == e <= F32MinExp \/ Dot(mx, my) = 0
         IN IF SumZero(ma, ma, ea + ea) \/ SumZero(mb, mb, eb + eb)
            THEN \* norm_a == 0.0 || norm_b == 0.0
                 <<0, 1>>
            ELSE IF SumInfinite(ma, ma, ea + ea) \/ SumInfinite(mb, mb, eb + eb)
            THEN \* the product of the norms is infinite
                 IF SumInfinite(ma, mb, ea + eb) THEN <<0, 0>> ELSE <<0, 1>>
            ELSE <<Dot(ma, mb), Sqrt(Dot(ma, ma)) * Sqrt(Dot(mb, mb))>>

\* x >= y and x > y on similarities; a comparison with NaN is false
SimGe(x, y) == x[2] # 0 /\ y[2] # 0 /\ x[1] * y[2] >= y[1] * x[2]

SimGt(x, y) == x[2] # 0 /\ y[2] # 0 /\ x[1] * y[2] > y[1] * x[2]

\* results.sort_by(|a, b| b.3.partial_cmp(&a.3)...): a stable sort, greatest
\* similarity first; a row goes after the rows that are not below it
RECURSIVE InsertBySimilarity(_, _)
InsertBySimilarity(sorted, r) ==
    IF sorted = <<>> THEN <<r>>
    ELSE IF SimGe(Head(sorted).similarity, r.similarity)
         THEN <<Head(sorted)>> \o InsertBySimilarity(Tail(sorted), r)
         ELSE <<r>> \o sorted

RECURSIVE SortBySimilarity(_, _)
SortBySimilarity(sorted, rest) ==
    IF rest = <<>> THEN sorted
    ELSE SortBySimilarity(InsertBySimilarity(sorted, Head(rest)), Tail(rest))

\* Vec::truncate(n), Iterator::take(n), and SQL LIMIT n for n >= 0
Take(s, n) == IF Len(s) > n THEN SubSeq(s, 1, n) ELSE s

\* embeddings.rs:147-201 semantic_search on the rows of the table
semantic_search(rows, query_vector, source_type, limit, min_similarity) ==
    LET selected == SelectSeq(rows, LAMBDA r : source_type = NoFilter \/ r.source_type = source_type)
        scored == [i \in 1..Len(selected) |->
                     [id |-> selected[i].id,
                      source_type |-> selected[i].source_type,
                      source_id |-> selected[i].source_id,
                      similarity |->
                          cosine_similarity(Scaled(query_vector, 0),
                                            Scaled(F32Numbers(bytes_to_floats(selected[i].vector)),
                                                   0))]]
        results == SelectSeq(scored, LAMBDA r : SimGe(r.similarity, min_similarity))
    IN Take(SortBySimilarity(<<>>, results), AsUsize(limit))

\* the tables semantic_search reads: up to MaxRows rows, in rowid order; the
\* vectors stored: along the query, at an angle, opposite, zero, and of
\* another dimension
SearchStores ==
    {[i \in DOMAIN f |-> [id |-> i, source_type |-> f[i][1], source_id |-> i,
                          vector |-> floats_to_bytes(F32Vec(f[i][2]))]] :
        f \in UNION {[1..n -> SourceTypes
                                 \X {<<1, 0>>, <<3, 4>>, <<-1, 0>>, <<0, 0>>, <<1>>}] :
                      n \in 0..MaxRows}}

InitSearch ==
    /\ InitLifecycle /\ InitGeneration /\ InitDatabase /\ EMBEDDER = FALSE /\ bld = NoBuild
    /\ fmt = NoPrompt /\ smp = NoSampling /\ csim = NoCosine
    /\ rtrip = NoRoundTrip
    /\ srch \in {[NoSearch EXCEPT !.pc = "call", !.rows = rows, !.query_vector = q] :
                rows \in SearchStores, q \in {<<1, 0>>, <<0, 1>>, <<0, 0>>}}

\* a call of semantic_search
SemanticSearch(source_type, limit, min_similarity) ==
    /\ srch.pc = "call"
    /\ srch' = [srch EXCEPT !.pc = "done",
                            !.source_type = source_type,
                            !.limit = limit,
                            !.min_similarity = min_similarity,
                            !.results = semantic_search(srch.rows, srch.query_vector,
                                                        source_type, limit, min_similarity)]
    /\ UNCHANGED <<coreVars, indexVars, bld, fmt, smp, csim, rtrip>>

\* source_type: None or a source type; limit: i32; min_similarity: 0.0,
\* 0.4 (find_rag_context), 0.5 (find_similar_messages), 1.0
NextSearch ==
    \E st \in SourceTypes \cup {NoFilter}, limit \in {-1, 0, 1, MaxRows},
       min \in {<<0, 1>>, <<2, 5>>, <<1, 2>>, <<1, 1>>} :
        SemanticSearch(st, limit, min)

SpecSearch == InitSearch /\ [][NextSearch]_vars

(***************************************************************************)
(* embeddings.rs: cosine_similarity on its own.                             *)
(***************************************************************************)
\* &[f32]: empty, of one and of two components; zero, along the axes, at an
\* angle; components of 2^64, whose squares are infinite in f32, and of
\* 2^-80, whose squares are zero in f32
CosineVectors ==
    {Scaled(m, 0) : m \in {<<>>, <<1>>, <<0, 0>>, <<1, 0>>, <<0, 1>>, <<-1, 0>>,
                           <<3, 4>>, <<-3, -4>>, <<4, -3>>}}
        \cup {Scaled(m, 64) : m \in {<<1, 0>>, <<-1, 0>>, <<0, 1>>}}
        \cup {Scaled(<<1, 0>>, -80)}

InitCosine ==
    /\ InitLifecycle /\ InitGeneration /\ InitDatabase /\ EMBEDDER = FALSE
    /\ srch = NoSearch /\ bld = NoBuild /\ fmt = NoPrompt /\ smp = NoSampling
    /\ rtrip = NoRoundTrip
    /\ csim \in {[pc |-> "call", a |-> a] : a \in CosineVectors}

\* a call of cosine_similarity
CosineSimilarity(b) ==
    /\ csim.pc = "call"
    /\ csim' = [pc |-> "done", a |-> csim.a, b |-> b,
                similarity |-> cosine_similarity(csim.a, b)]
    /\ UNCHANGED <<coreVars, indexVars, srch, bld, fmt, smp, rtrip>>

NextCosine == \E b \in CosineVectors : CosineSimilarity(b)

SpecCosine == InitCosine /\ [][NextCosine]_vars

(***************************************************************************)
(* embeddings.rs: a vector on its way into the vector column of the        *)
(* embeddings table (store_embedding) and out of it (semantic_search).     *)
(***************************************************************************)
\* the bound of the length of the vectors written
MaxDim == 2

\* the f32 values of the vectors: 0.0, -0.0, 1.0, -3.14, the least subnormal,
\* infinity, a NaN, and the bits 0x01020304 and 0xFFFFFFFF
F32Values ==
    {<<0, 0>>, <<32768, 0>>, <<16256, 0>>, <<49224, 62915>>, <<0, 1>>, <<32640, 0>>,
     <<32704, 0>>, <<258, 772>>, <<65535, 65535>>}

InitRoundTrip ==
    /\ InitLifecycle /\ InitGeneration /\ InitDatabase /\ EMBEDDER = FALSE
    /\ srch = NoSearch /\ bld = NoBuild /\ fmt = NoPrompt /\ smp = NoSampling
    /\ csim = NoCosine
    /\ rtrip \in {[pc |-> "vector", floats |-> v] :
                    v \in UNION {[1..n -> F32Values] : n \in 0..MaxDim}}

\* embeddings.rs:120: the vector is written as floats_to_bytes(vector)
FloatsToBytes ==
    /\ rtrip.pc = "vector"
    /\ rtrip' = [pc |-> "blob", floats |-> rtrip.floats,
                 bytes |-> floats_to_bytes(rtrip.floats)]
    /\ UNCHANGED <<coreVars, indexVars, srch, bld, fmt, smp, csim>>

\* embeddings.rs:189: the column is read as bytes_to_floats(&vector_bytes)
BytesToFloats ==
    /\ rtrip.pc = "blob"
    /\ rtrip' = [pc |-> "read", floats |-> rtrip.floats, bytes |-> rtrip.bytes,
                 recovered |-> bytes_to_floats(rtrip.bytes)]
    /\ UNCHANGED <<coreVars, indexVars, srch, bld, fmt, smp, csim>>

NextRoundTrip == FloatsToBytes \/ BytesToFloats

SpecRoundTrip == InitRoundTrip /\ [][NextRoundTrip]_vars

(***************************************************************************)
(* commands.rs: build_enriched_system_prompt.  The String built is the      *)
(* sequence of the pieces pushed to it; a piece is its kind and the texts    *)
(* formatted into it.  A Result is [ok, val]; an Option is a sequence of at  *)
(* most one element.                                                         *)
(***************************************************************************)
Piece(kind, args) == [kind |-> kind, args |-> args]

\* commands.rs:532-533: the two fixed sentences after the base prompt
Suffix == Piece("suffix", <<>>)

\* commands.rs:538, 557, 587, 603: the headers of the four sections
HeaderFacts == Piece("header facts", <<>>)

HeaderSemantic == Piece("header semantic", <<>>)

HeaderKeyword == Piece("header keyword", <<>>)

HeaderPersona == Piece("header persona", <<>>)

\* enriched.push('\n') after a section
Blank == Piece("blank", <<>>)

Ok(v) == [ok |-> TRUE, val |-> v]

Err == [ok |-> FALSE, val |-> <<>>]

TopMemories == 5

RagLimit == 5

RagShown == 3

KeywordMinBytes == 3

KeywordCount == 3

SearchLimit == 3

ContentShown == 200

RECURSIVE Reverse(_)
Reverse(s) == IF s = <<>> THEN <<>> ELSE Reverse(Tail(s)) \o <<Head(s)>>

Range(s) == {s[i] : i \in DOMAIN s}

\* ORDER BY importance DESC
RECURSIVE ByImportance(_)
ByImportance(rows) ==
    IF rows = <<>> THEN <<>>
    ELSE LET i == CHOOSE i \in DOMAIN rows :
                     \A j \in DOMAIN rows : rows[j].importance <= rows[i].importance
         IN <<rows[i]>> \o ByImportance(SubSeq(rows, 1, i - 1) \o SubSeq(rows, i + 1, Len(rows)))

\* database.rs:453-472 get_top_memories
get_top_memories(rows, limit, db) ==
    IF db # "ok" THEN Err ELSE Ok(Take(ByImportance(rows), limit))

\* FactsSection with the header pushed for an empty list too
FactsSectionAlways(memories) ==
    IF memories.ok
    THEN <<HeaderFacts>>
         \o [i \in DOMAIN memories.val |->
               Piece("fact", <<memories.val[i].category, memories.val[i].content>>)]
         \o <<Blank>>
    ELSE <<>>

\* commands.rs:535-545: the facts section
FactsSection(memories) ==
    IF memories.ok /\ memories.val # <<>>
    THEN <<HeaderFacts>>
         \o [i \in DOMAIN memories.val |->
               Piece("fact", <<memories.val[i].category, memories.val[i].content>>)]
         \o <<Blank>>
    ELSE <<>>

\* the content stored for a message or a memory fact
Digits == <<"1", "2", "3", "4", "5", "6", "7">>

StoredContent(source_type, source_id) ==
    IF source_type = "memory" THEN <<"f", "a", "c", "t", Digits[source_id]>>
    ELSE <<"s", "a", "i", "d", Digits[source_id]>>

\* embeddings.rs:338-383 find_rag_context, inside with_connection
\* (commands.rs:548-550): rag is where it fails, stored the sources whose
\* content the database holds
find_rag_context(rows, stored, rag, limit) ==
    IF rag # "ok" THEN Err
    ELSE LET \* embed_query's vector for the prompt
             query_vector == <<1, 0>>
             results == semantic_search(rows, query_vector, NoFilter, limit, <<2, 5>>)
             found == SelectSeq(results, LAMBDA r : <<r.source_type, r.source_id>> \in stored)
         IN Ok([i \in DOMAIN found |->
                  [source_type |-> found[i].source_type,
                   source_id |-> found[i].source_id,
                   content |-> StoredContent(found[i].source_type, found[i].source_id),
                   similarity |-> found[i].similarity]])

\* commands.rs:560-564: "Память", "Сообщение", or the source type
SourceLabel(source_type) ==
    CASE source_type = "memory" -> <<"P", "a", "m", "y", "a", "t">>
      [] source_type = "message" -> <<"S", "o", "o", "b">>
      [] OTHER -> <<source_type>>

\* the semantic section without the cut to three entries
SemanticSectionUncut(rag_results) ==
    IF ~rag_results.ok THEN <<>>
    ELSE LET relevant == SelectSeq(rag_results.val, LAMBDA r : SimGt(r.similarity, <<1, 2>>))
         IN IF relevant = <<>> THEN <<>>
            ELSE <<HeaderSemantic>>
                 \o [i \in DOMAIN relevant |->
                       Piece("hit", <<SourceLabel(relevant[i].source_type),
                                      Take(relevant[i].content, ContentShown)>>)]
                 \o <<Blank>>

\* commands.rs:547-573: the semantic section
SemanticSection(rag_results) ==
    IF ~rag_results.ok THEN <<>>
    ELSE LET relevant == Take(SelectSeq(rag_results.val,
                                        LAMBDA r : SimGt(r.similarity, <<1, 2>>)), RagShown)
         IN IF relevant = <<>> THEN <<>>
            ELSE <<HeaderSemantic>>
                 \o [i \in DOMAIN relevant |->
                       Piece("hit", <<SourceLabel(relevant[i].source_type),
                                      Take(relevant[i].content, ContentShown)>>)]
                 \o <<Blank>>

\* str::split_whitespace
RECURSIVE SplitFrom(_, _, _)
SplitFrom(s, word, words) ==
    IF s = <<>> THEN (IF word = <<>> THEN words ELSE Append(words, word))
    ELSE IF Head(s) = " "
         THEN SplitFrom(Tail(s), <<>>, IF word = <<>> THEN words ELSE Append(words, word))
         ELSE SplitFrom(Tail(s), Append(word, Head(s)), words)

SplitWhitespace(s) == SplitFrom(s, <<>>, <<>>)

\* commands.rs:576-579: the words with len() > 3, the first 3 of them
Keywords(prompt) ==
    Take(SelectSeq(SplitWhitespace(prompt), LAMBDA w : ByteLen(w) > KeywordMinBytes),
         KeywordCount)

\* keywords.join(" OR ")
RECURSIVE JoinOr(_)
JoinOr(keywords) ==
    IF keywords = <<>> THEN <<>>
    ELSE IF Len(keywords) = 1 THEN keywords[1]
    ELSE keywords[1] \o <<" ", "O", "R", " ">> \o JoinOr(Tail(keywords))

\* search_all_messages without LIMIT
SearchAllMessagesUnlimited(rows, query, limit, db) ==
    IF db # "ok" THEN [ok |-> FALSE, val |-> <<>>]
    ELSE LET terms == SelectSeq(SplitWhitespace(query), LAMBDA w : w # <<"O", "R">>)
         IN [ok |-> TRUE,
             val |-> SelectSeq(Reverse(rows),
                               LAMBDA m : Range(SplitWhitespace(m.content))
                                            \cap Range(terms) # {})]

\* database.rs:324-350 search_all_messages: the messages (rows in timestamp
\* order) holding a term of the query, newest first, LIMIT limit
search_all_messages(rows, query, limit, db) ==
    IF db # "ok" THEN Err
    ELSE LET \* the terms of the FTS5 query  t1 OR t2 OR ...
             terms == SelectSeq(SplitWhitespace(query), LAMBDA w : w # <<"O", "R">>)
         IN Ok(Take(SelectSeq(Reverse(rows),
                              LAMBDA m : Range(SplitWhitespace(m.content))
                                           \cap Range(terms) # {}),
                    limit))

RoleLabel(is_user) == IF is_user THEN <<"U", "s", "e", "r">> ELSE <<"A", "s", "s", "t">>

\* KeywordSection without the filter on the session
KeywordSectionAnySession(prompt, session_id, rows, db) ==
    IF Keywords(prompt) = <<>> THEN <<>>
    ELSE LET relevant == search_all_messages(rows, JoinOr(Keywords(prompt)), SearchLimit, db)
         IN IF ~relevant.ok \/ relevant.val = <<>> THEN <<>>
            ELSE <<HeaderKeyword>>
                 \o [i \in DOMAIN relevant.val |->
                       Piece("chat", <<relevant.val[i].session_title,
                                       RoleLabel(relevant.val[i].is_user),
                                       Take(relevant.val[i].content, ContentShown)>>)]
                 \o <<Blank>>

\* commands.rs:575-598: the keyword section
KeywordSection(prompt, session_id, rows, db) ==
    IF Keywords(prompt) = <<>> THEN <<>>
    ELSE LET relevant == search_all_messages(rows, JoinOr(Keywords(prompt)), SearchLimit, db)
         IN IF ~relevant.ok THEN <<>>
            ELSE LET other_session_msgs ==
                         SelectSeq(relevant.val, LAMBDA m : m.session_id # session_id)
                 IN IF other_session_msgs = <<>> THEN <<>>
                    ELSE <<HeaderKeyword>>
                         \o [i \in DOMAIN other_session_msgs |->
                               Piece("chat", <<other_session_msgs[i].session_title,
                                               RoleLabel(other_session_msgs[i].is_user),
                                               Take(other_session_msgs[i].content,
                                                    ContentShown)>>)]
                         \o <<Blank>>

\* database.rs:484-510 get_user_persona: rows of user_persona LIMIT 1
get_user_persona(rows, db) ==
    IF db # "ok" THEN Err ELSE Ok(Take(rows, 1))

\* commands.rs:600-606: the persona section
PersonaSection(persona) ==
    IF persona.ok /\ persona.val # <<>>
    THEN <<HeaderPersona,
           Piece("persona", <<persona.val[1].writing_style, persona.val[1].tone,
                              persona.val[1].language>>),
           Blank>>
    ELSE <<>>

\* the sections in another order: the persona before the facts
BuildPersonaFirst(base_prompt, prompt, session_id, db) ==
    <<Piece("base", <<base_prompt>>), Suffix>>
    \o PersonaSection(get_user_persona(db.persona, db.persona_db))
    \o FactsSection(get_top_memories(db.memory, TopMemories, db.memory_db))
    \o SemanticSection(find_rag_context(db.embeddings, db.stored, db.rag, RagLimit))
    \o KeywordSection(prompt, session_id, db.messages, db.fts)

\* commands.rs:525-609 build_enriched_system_prompt on what the database and
\* the embedder hold
build_enriched_system_prompt(base_prompt, prompt, session_id, db) ==
    <<Piece("base", <<base_prompt>>), Suffix>>
    \o FactsSection(get_top_memories(db.memory, TopMemories, db.memory_db))
    \o SemanticSection(find_rag_context(db.embeddings, db.stored, db.rag, RagLimit))
    \o KeywordSection(prompt, session_id, db.messages, db.fts)
    \o PersonaSection(get_user_persona(db.persona, db.persona_db))

EmbeddingRow(id, source_type, vector) ==
    [id |-> id, source_type |-> source_type, source_id |-> id,
     vector |-> floats_to_bytes(F32Vec(vector))]

\* tables of embeddings: one hit below the floor of the section (8/17), one
\* above it (3/5), and more hits than are searched for and shown
RagTables ==
    [low |-> <<EmbeddingRow(1, "message", <<8, 15>>)>>,
     one |-> <<EmbeddingRow(1, "memory", <<3, 4>>)>>,
     many |-> <<EmbeddingRow(1, "message", <<3, 4>>), EmbeddingRow(2, "memory", <<4, 3>>),
                EmbeddingRow(3, "message", <<1, 0>>), EmbeddingRow(4, "memory", <<1, 0>>),
                EmbeddingRow(5, "message", <<8, 15>>), EmbeddingRow(6, "memory", <<0, 1>>)>>]

SourcesOf(rows) == {<<rows[i].source_type, rows[i].source_id>> : i \in DOMAIN rows}

RagStates ==
    {[rag |-> f, embeddings |-> <<>>, stored |-> {}] :
        f \in {"NoConnection", "EmbedderNotInitialized", "SearchFailed"}}
    \cup {[rag |-> "ok", embeddings |-> rows, stored |-> SourcesOf(rows)] :
            rows \in {<<>>, RagTables.low, RagTables.one, RagTables.many}}
    \cup {[rag |-> "ok", embeddings |-> RagTables.one, stored |-> {}],
          [rag |-> "ok", embeddings |-> RagTables.many,
           stored |-> SourcesOf(RagTables.many) \ {<<"message", 3>>}]}

TextTime == <<"t", "i", "m", "e">>

MessageRow(id, session_id, content) ==
    [id |-> id, session_id |-> session_id,
     session_title |-> <<"c", "h", "a", "t", Digits[session_id]>>,
     content |-> content, is_user |-> (id % 2 = 1)]

\* search_all_messages fails, or reads one of these tables
FtsStates ==
    {[fts |-> "fail", messages |-> <<>>]}
    \cup {[fts |-> "ok", messages |-> rows] :
            rows \in {<<>>,
                      <<MessageRow(1, 1, TextTime)>>,
                      <<MessageRow(1, 2, TextTime \o <<" ">> \o <<"t", "e", "a">>)>>,
                      <<MessageRow(1, 2, <<"t", "e", "a">>)>>,
                      <<MessageRow(1, 2, TextTime), MessageRow(2, 1, TextTime),
                        MessageRow(3, 1, TextTime), MessageRow(4, 1, TextTime)>>,
                      <<MessageRow(1, 2, TextTime), MessageRow(2, 2, TextTime),
                        MessageRow(3, 2, TextTime), MessageRow(4, 2, TextTime)>>}}

\* what the database and the embedder hold when the prompt is built: table
\* memory (n facts, the later the more important) or an error, the index,
\* the messages, and user_persona (an error, no row, a row)
Databases ==
    {[memory_db |-> m.memory_db, memory |-> m.memory,
      rag |-> r.rag, embeddings |-> r.embeddings, stored |-> r.stored,
      fts |-> f.fts, messages |-> f.messages,
      persona_db |-> p.persona_db, persona |-> p.persona] :
        m \in {[memory_db |-> "fail", memory |-> <<>>]}
               \cup {[memory_db |-> "ok",
                      memory |-> [i \in 1..n |-> [category |-> <<"f", "a", "c", "t">>,
                                                  content |-> StoredContent("memory", i),
                                                  importance |-> i]]] :
                        n \in {0, 1, TopMemories + 1}},
        r \in RagStates,
        f \in FtsStates,
        p \in {[persona_db |-> "fail", persona |-> <<>>],
               [persona_db |-> "ok", persona |-> <<>>],
               [persona_db |-> "ok",
                persona |-> <<[writing_style |-> <<"b", "r", "i", "e", "f">>,
                               tone |-> <<"d", "r", "y">>,
                               language |-> <<"e", "n">>]>>]}}

BasePrompts == {<<>>, <<"Y", "o", "u">>}

\* "", "hi", "tea time", a word of 2 characters in 4 bytes, 4 long words
Prompts ==
    {<<>>,
     <<"h", "i">>,
     <<"t", "e", "a", " ", "t", "i", "m", "e">>,
     <<"Zd", "Zo">>,
     <<"w", "h", "a", "t", " ", "t", "i", "m", "e", " ", "d", "o", "e", "s", " ",
       "t", "h", "i", "s", " ", "e", "n", "d">>}

SessionIds == {1, 2}

InitBuild ==
    /\ InitLifecycle /\ InitGeneration /\ InitDatabase /\ EMBEDDER = FALSE /\ srch = NoSearch
    /\ fmt = NoPrompt /\ smp = NoSampling /\ csim = NoCosine
    /\ rtrip = NoRoundTrip
    /\ bld \in {[pc |-> "call", db |-> d] : d \in Databases}

\* a call of build_enriched_system_prompt
BuildEnrichedSystemPrompt(base_prompt, prompt, session_id) ==
    /\ bld.pc = "call"
    /\ bld' = [pc |-> "done", db |-> bld.db,
               base_prompt |-> base_prompt, prompt |-> prompt, session_id |-> session_id,
               \* commands.rs:580-582: the query handed to search_all_messages,
               \* if the call makes the search
               search_query |-> IF Keywords(prompt) = <<>> THEN <<>>
                                ELSE <<JoinOr(Keywords(prompt))>>,
               enriched |-> build_enriched_system_prompt(base_prompt, prompt, session_id,
                                                         bld.db)]
    /\ UNCHANGED <<coreVars, indexVars, srch, fmt, smp, csim, rtrip>>

NextBuild ==
    \E base_prompt \in BasePrompts, prompt \in Prompts, session_id \in SessionIds :
        BuildEnrichedSystemPrompt(base_prompt, prompt, session_id)

SpecBuild == InitBuild /\ [][NextBuild]_vars

(***************************************************************************)
(* commands.rs: the ChatML text the generate command hands to               *)
(* llm::generate.                                                           *)
(***************************************************************************)
\* the bound of the history a generate command is given
MaxHistory == 2

RoleSystem == <<"s", "y", "s", "t", "e", "m">>

RoleUser == <<"u", "s", "e", "r">>

RoleAssistant == <<"a", "s", "s", "i", "s", "t", "a", "n", "t">>

\* commands.rs:645-648: the loop over history.iter()
RECURSIVE PushHistory(_, _)
PushHistory(full_prompt, history) ==
    IF history = <<>> THEN full_prompt
    ELSE LET msg == Head(history)
             role == IF msg.is_user THEN RoleUser ELSE RoleAssistant
         IN PushHistory(full_prompt \o StopImStart \o role \o <<"\n">> \o msg.content
                            \o StopImEnd \o <<"\n">>,
                        Tail(history))

\* the layout commands.rs:1348-1358 (test_full_prompt_structure) builds: a
\* line break between the system prompt and its <|im_end|>
FullPromptTestLayout(system_prompt, history, prompt) ==
    PushHistory(StopImStart \o RoleSystem \o <<"\n">> \o system_prompt
                    \o <<"\n">> \o StopImEnd \o <<"\n">>,
                history)
        \o StopImStart \o RoleUser \o <<"\n">> \o prompt \o StopImEnd \o <<"\n">>
        \o StopImStart \o RoleAssistant \o <<"\n">>

\* commands.rs:639-652 generate: full_prompt
full_prompt(system_prompt, history, prompt) ==
    PushHistory(StopImStart \o RoleSystem \o <<"\n">> \o system_prompt
                    \o StopImEnd \o <<"\n">>,
                history)
        \o StopImStart \o RoleUser \o <<"\n">> \o prompt \o StopImEnd \o <<"\n">>
        \o StopImStart \o RoleAssistant \o <<"\n">>

\* the texts of the messages: "", "hi", and a text that holds <|im_end|>
MessageTexts == {<<>>, <<"h", "i">>, <<"a">> \o StopImEnd}

\* Vec<HistoryMessage>
Histories ==
    UNION {[1..n -> [content : MessageTexts, is_user : BOOLEAN]] : n \in 0..MaxHistory}

InitPrompt ==
    /\ InitLifecycle /\ InitGeneration /\ InitDatabase /\ EMBEDDER = FALSE
    /\ srch = NoSearch /\ bld = NoBuild /\ smp = NoSampling /\ csim = NoCosine
    /\ rtrip = NoRoundTrip
    /\ fmt \in {[pc |-> "call", history |-> h] : h \in Histories}

\* the generate command builds its prompt text
BuildFullPrompt(system_prompt, prompt) ==
    /\ fmt.pc = "call"
    /\ fmt' = [pc |-> "done", history |-> fmt.history,
               system_prompt |-> system_prompt, prompt |-> prompt,
               full_prompt |-> full_prompt(system_prompt, fmt.history, prompt)]
    /\ UNCHANGED <<coreVars, indexVars, srch, bld, smp, csim, rtrip>>

NextPrompt ==
    \E system_prompt \in BasePrompts, prompt \in MessageTexts :
        BuildFullPrompt(system_prompt, prompt)

SpecPrompt == InitPrompt /\ [][NextPrompt]_vars

(***************************************************************************)
(* llm.rs: sample_with_temperature and next_seed, as the sampling loops of  *)
(* two generations on one model and one prompt call them.  The runtime is a *)
(* function: the candidates follow from the tokens decoded so far, the      *)
(* greedy sampler selects the candidate of the highest logit, the dist      *)
(* sampler selects by its seed.                                             *)
(***************************************************************************)
\* the bound of the seeds drawn in one behaviour
MaxDraws == 45

\* the two sampling loops
Samplings == {"s1", "s2"}

SampleVocab == <<"a", "b", TokEog>>

\* ctx.candidates_ith (llm.rs:335): the logits of SampleVocab after the
\* tokens decoded so far
Candidates(tokens) ==
    IF tokens = <<>> THEN <<5, 3, 1>>
    ELSE IF tokens[Len(tokens)] = "a" THEN <<1, 4, 2>>
    ELSE <<2, 1, 6>>

\* llm.rs:68-71 with the dist sampler's seed used on the greedy path too
SampleAlwaysSeeded(candidates, temperature, seed) ==
    SampleVocab[(seed[2] % Len(candidates)) + 1]

\* llm.rs:67-82 sample_with_temperature: the token selected
sample_with_temperature(candidates, temperature, seed) ==
    IF temperature <= 0
    THEN SampleVocab[CHOOSE i \in 1..Len(candidates) :
                        \A j \in 1..Len(candidates) : candidates[i] >= candidates[j]]
    ELSE SampleVocab[(seed[2] % Len(candidates)) + 1]

\* the counter of a new process, and of a process 45 draws before seed 42
\* comes up again
SeedStates == {<<0, SeedStart>>, <<65535, 65534>>}

InitSample ==
    /\ InitLifecycle /\ InitRequests /\ InitDatabase /\ EMBEDDER = FALSE
    /\ srch = NoSearch /\ bld = NoBuild /\ fmt = NoPrompt /\ csim = NoCosine
    /\ rtrip = NoRoundTrip
    /\ SEED_COUNTER \in SeedStates
    /\ smp = [pc |-> [r \in Samplings |-> "idle"],
              temperature |-> [r \in Samplings |-> 0],
              tokens |-> [r \in Samplings |-> <<>>],
              start |-> SEED_COUNTER,
              drawn |-> {}]

\* llm.rs:330-333: a generation enters its sampling loop
StartSampling(r, temperature) ==
    /\ smp.pc[r] = "idle"
    /\ smp' = [smp EXCEPT !.pc[r] = "loop", !.temperature[r] = temperature,
                          !.tokens[r] = <<>>]
    /\ UNCHANGED <<lifeVars, loadVars, upc, genVars, SEED_COUNTER, STOP_GENERATION,
                   events, stopVars>>
    /\ UNCHANGED <<indexVars, srch, bld, fmt, csim, rtrip>>

\* llm.rs:333-349: one pass of the loop up to the end-of-generation check
SampleToken(r) ==
    /\ smp.pc[r] = "loop"
    /\ smp.temperature[r] > 0 => Cardinality(smp.drawn) < MaxDraws
    /\ LET token == sample_with_temperature(Candidates(smp.tokens[r]),
                                            smp.temperature[r], SEED_COUNTER)
           tokens == Append(smp.tokens[r], token)
       IN /\ SEED_COUNTER' = SeedAfterSample(smp.temperature[r], SEED_COUNTER)
          /\ smp' = [smp EXCEPT
                        !.tokens[r] = tokens,
                        !.pc[r] = IF IsEogToken(token) \/ Len(tokens) >= MaxIter
                                  THEN "idle" ELSE "loop",
                        !.drawn = IF smp.temperature[r] > 0
                                  THEN @ \cup {SEED_COUNTER} ELSE @]
    /\ UNCHANGED <<lifeVars, loadVars, upc, genVars, STOP_GENERATION, events, stopVars>>
    /\ UNCHANGED <<indexVars, srch, bld, fmt, csim, rtrip>>

\* f32 temperatures, in tenths: -0.5, 0.0, 0.8
NextSample ==
    \/ \E r \in Samplings, temperature \in {-5, 0, 8} : StartSampling(r, temperature)
    \/ \E r \in Samplings : SampleToken(r)

SpecSample == InitSample /\ [][NextSample]_vars

\* the iterations max_tokens allows, as the claim counts them
AllowedPasses(max_tokens) == IF max_tokens > 0 THEN max_tokens ELSE 0

\* C11: a generation makes at most max_tokens sampling passes and invokes the
\* fragment callback at most max_tokens times, for every i32 max_tokens; with
\* max_tokens <= 0 no fragment is produced
C11_MaxTokensBounds ==
    [][\A g \in Gens :
         InLoop(g) =>
            /\ (giter'[g] = giter[g] + 1 \/ (gpc'[g] = "finish" /\ gexit'[g] # "max_tokens"))
                   => giter[g] < AllowedPasses(gmax[g])
            /\ Len(gfrags'[g]) <= AllowedPasses(gmax[g])]_vars

\* C12: llm::generate that finds no model in the slot, at its loaded-check or
\* at its acquisition of the model, returns the model-not-loaded error, invokes
\* no callback, emits nothing and leaves the lifecycle state as it was
C12_NotLoadedFails ==
    [][\A g \in Gens :
         (gpc[g] \in {"is_loaded", "lock"} /\ gpc'[g] # gpc[g] /\ MODEL = NoModel) =>
            /\ gpc'[g] = "finish"
            /\ gres'[g] = "Err"
            /\ gerr'[g] = "ModelNotLoaded"
            /\ gfrags'[g] = <<>>
            /\ events' = events
            /\ UNCHANGED <<MODEL, modelLock, modelPoisoned, MODEL_PATH, CONTEXT_SIZE,
                           CURRENT_MODEL>>]_vars

\* C12 witness: the loaded-check or the acquisition found the slot just
\* emptied by an unload command, after a load had installed a model
C12_Witness ==
    /\ gpc["g1"] = "finish"
    /\ gerr["g1"] = "ModelNotLoaded"
    /\ gfrags["g1"] = <<>>
    /\ MODEL = NoModel
    /\ handles # <<>>
    /\ \E u \in Unloaders : upc[u] = "unload_path"

\* the index's records of one source
RecordsOf(key) == {r \in embeddings : r.source_type = key[1] /\ r.source_id = key[2]}

C16_NoOrphanEmbedding ==
    \A r \in embeddings :
        /\ r.source_type = "message" => \E m \in messages : m.id = r.source_id
        /\ r.source_type = "memory" => \E m \in memory : m.id = r.source_id

\* C17: save_message returned Ok(id) for every message it inserted, whatever
\* the indexing of the message gave afterwards, and the indexing thread leaves
\* the stored messages as they are
C17_SaveUnaffectedByIndexing ==
    /\ [](\A id \in 1..(nextMessage - 1) :
            /\ [msg_id |-> id, result |-> "Ok"] \in saveLog
            /\ [msg_id |-> id, result |-> "Err"] \notin saveLog)
    /\ [][(tasks' # tasks /\ tasks' \subseteq tasks) =>
            (messages' = messages /\ saveLog' = saveLog)]_vars

\* C17 witness: the indexing thread of the one saved message has failed
C17_Witness ==
    /\ idxLast.result \in {"EmbedderNotInitialized", "EmbeddingFailed", "StoreFailed"}
    /\ tasks = {}
    /\ nextMessage = 2
    /\ messages # {}
    /\ saveLog = {[msg_id |-> 1, result |-> "Ok"]}
    /\ iapc = "idle"
    /\ nextMemory = 1

\* C15: the Vec semantic_search returns is sorted by strictly descending
\* similarity, holds no result below min_similarity, holds at most top_k
\* results and, with a source_type filter, only results of that source type
C15_SearchContract ==
    srch.pc = "done" =>
        LET res == srch.results
        IN /\ \A i, j \in 1..Len(res) : i < j => SimGt(res[i].similarity, res[j].similarity)
           /\ \A i \in 1..Len(res) : SimGe(res[i].similarity, srch.min_similarity)
           /\ Len(res) <= (IF srch.limit > 0 THEN srch.limit ELSE 0)
           /\ srch.source_type # NoFilter =>
                 \A i \in 1..Len(res) : res[i].source_type = srch.source_type

\* the section headers of a built prompt, and the sections whose data source
\* gave data to the call
SectionHeaders == <<HeaderFacts, HeaderSemantic, HeaderKeyword, HeaderPersona>>

HeadersIn(enriched) == {h \in Range(SectionHeaders) : h \in Range(enriched)}

SectionData(header) ==
    CASE header = HeaderFacts ->
            LET memories == get_top_memories(bld.db.memory, TopMemories, bld.db.memory_db)
            IN memories.ok /\ memories.val # <<>>
      [] header = HeaderSemantic ->
            LET hits == find_rag_context(bld.db.embeddings, bld.db.stored, bld.db.rag,
                                         RagLimit)
            IN hits.ok /\ \E i \in DOMAIN hits.val : SimGt(hits.val[i].similarity, <<1, 2>>)
      [] header = HeaderKeyword ->
            /\ Keywords(bld.prompt) # <<>>
            /\ LET found == search_all_messages(bld.db.messages,
                                                JoinOr(Keywords(bld.prompt)),
                                                SearchLimit, bld.db.fts)
               IN found.ok /\ \E i \in DOMAIN found.val :
                                 found.val[i].session_id # bld.session_id
      [] header = HeaderPersona ->
            LET persona == get_user_persona(bld.db.persona, bld.db.persona_db)
            IN persona.ok /\ persona.val # <<>>

\* C18: with no memory facts, no semantic hits, no keyword matches in other
\* sessions and no persona, build_enriched_system_prompt returns exactly the
\* base prompt followed by the fixed suffix, with none of the four headers
C18_BarePrompt ==
    (bld.pc = "done" /\ \A h \in Range(SectionHeaders) : ~SectionData(h)) =>
        /\ bld.enriched = <<Piece("base", <<bld.base_prompt>>), Suffix>>
        /\ HeadersIn(bld.enriched) = {}

\* C18 witness: a call with nothing to add, though the index holds a hit under
\* the floor of the section and the current session holds a keyword match
C18_Witness ==
    /\ bld.pc = "done"
    /\ \A h \in Range(SectionHeaders) : ~SectionData(h)
    /\ bld.db.memory_db = "ok" /\ bld.db.persona_db = "ok"
    /\ bld.db.rag = "ok" /\ bld.db.embeddings = RagTables.low
    /\ bld.db.fts = "ok" /\ bld.db.messages # <<>> /\ Keywords(bld.prompt) = <<TextTime>>
    /\ bld.db.messages[1].session_id = bld.session_id
    /\ bld.enriched = <<Piece("base", <<bld.base_prompt>>), Suffix>>

\* C19: whatever data sources fail, build_enriched_system_prompt returns a
\* prompt for every call (the base prompt and the suffix, then the sections),
\* and the prompt holds the header of a section exactly when the section's
\* source succeeded with data
C19_SectionsPresent ==
    /\ bld.pc = "call" =>
          \A base_prompt \in BasePrompts, prompt \in Prompts, session_id \in SessionIds :
             LET enriched == build_enriched_system_prompt(base_prompt, prompt, session_id,
                                                          bld.db)
             IN SubSeq(enriched, 1, 2) = <<Piece("base", <<base_prompt>>), Suffix>>
    /\ bld.pc = "done" =>
          \A h \in Range(SectionHeaders) : (h \in Range(bld.enriched)) <=> SectionData(h)

\* C19 witness: the memory store and the embedder fail, the keyword and the
\* persona sections are built
C19_Witness ==
    /\ bld.pc = "done"
    /\ bld.db.memory_db = "fail"
    /\ bld.db.rag = "EmbedderNotInitialized"
    /\ SectionData(HeaderKeyword) /\ SectionData(HeaderPersona)
    /\ HeadersIn(bld.enriched) = {HeaderKeyword, HeaderPersona}

\* C20: a built prompt starts with the base prompt and the suffix; the section
\* headers in it stand in the order facts, semantic, keyword, persona, each
\* at most once
C20_SectionOrder ==
    bld.pc = "done" =>
        /\ Len(bld.enriched) >= 2
        /\ bld.enriched[1] = Piece("base", <<bld.base_prompt>>)
        /\ bld.enriched[2] = Suffix
        /\ \A i, j \in DOMAIN bld.enriched :
              \A m, n \in DOMAIN SectionHeaders :
                 (i < j /\ bld.enriched[i] = SectionHeaders[m]
                        /\ bld.enriched[j] = SectionHeaders[n]) => m < n

\* C20 witness: a prompt with the semantic and the persona sections only
C20_Witness ==
    /\ bld.pc = "done"
    /\ HeadersIn(bld.enriched) = {HeaderSemantic, HeaderPersona}
    /\ \E i, j \in DOMAIN bld.enriched :
          i < j /\ bld.enriched[i] = HeaderSemantic /\ bld.enriched[j] = HeaderPersona

C22_ReadsNotBlocked ==
    \A g, h \in Gens :
        InLoop(g) /\ h # g /\ gpc[h] = "is_loaded" => ENABLED GenIsLoaded(h)

\* C23: a read never executes concurrently with a load or an unload: a
\* status query (is_loaded) takes its step only when no load_model call is
\* inside its exclusive section and no unload_model call is between its two
\* critical sections
C23_ReadsExcludeLoad ==
    [][(\E g \in Gens : GenIsLoaded(g)) =>
           /\ \A l \in Loaders : ~InLoadModel(l)
           /\ \A u \in Unloaders : ~InUnloadModel(u)]_vars

\* C24: unload_model is idempotent: its first critical section leaves no
\* model in the slot and its second leaves no stored path, so a second call
\* finds what the first call left; and a call made when nothing is loaded (no
\* model, no stored path) changes neither
C24_UnloadIdempotent ==
    [][\A u \in Unloaders :
           /\ UnloadSlot(u) => MODEL' = NoModel
           /\ UnloadPath(u) => MODEL_PATH' = NoPath
           /\ (UnloadSlot(u) \/ UnloadPath(u)) /\ MODEL = NoModel /\ MODEL_PATH = NoPath
                  => UNCHANGED <<MODEL, MODEL_PATH>>]_vars

\* C25: at most one model handle exists at any time: the models alive are
\* the one in MODEL's slot and the ones load_model has obtained from the
\* runtime and not yet stored; in no reachable state are there two
C25_AtMostOneModel ==
    Cardinality(({MODEL} \cup {lnew[l] : l \in {k \in Loaders : lpc[k] = "store_model"}})
                    \ {NoModel}) <= 1

\* C26: at most one generation is active at a time: of the generate
\* requests made, at most one is between its prefill and the end of its
\* sampling loop
C26_OneActiveGeneration ==
    \A g, h \in Gens :
        gpc[g] \in {"read_ctx", "loop"} /\ gpc[h] \in {"read_ctx", "loop"} => g = h

\* a generation is in its sampling loop, has made a pass, and a second
\* request has been made and is not yet answered
C26_Witness ==
    \E g, h \in Gens :
        /\ g # h
        /\ InLoop(g) /\ giter[g] > 0
        /\ gpc[h] \in {"is_loaded", "lock"}

\* a < b as u32
SeedLt(a, b) == a[1] < b[1] \/ (a[1] = b[1] /\ a[2] < b[2])

\* C27: every random draw uses a seed that no earlier draw used: a draw only
\* advances the counter (u32), and the seed it hands out is none of the seeds
\* handed out before, in this behaviour or between the start of the process
\* (seed 42) and the start of the behaviour
C27_FreshSeeds ==
    [][SEED_COUNTER' # SEED_COUNTER =>
           /\ SeedLt(SEED_COUNTER, SEED_COUNTER')
           /\ SEED_COUNTER \notin smp.drawn
           /\ ~(~SeedLt(SEED_COUNTER, <<0, SeedStart>>) /\ SeedLt(SEED_COUNTER, smp.start))]_vars

\* C28: for every temperature <= 0, zero and negative, sampling takes the
\* greedy path: the pass selects the one candidate of the highest logit and
\* leaves the draw counter as it is; so the token sequences of two sampling
\* loops at temperatures <= 0 on the same model and prompt agree as far as
\* both have got
C28_GreedyDeterministic ==
    [][\A r \in Samplings :
           SampleToken(r) /\ smp.temperature[r] <= 0 =>
               LET candidates == Candidates(smp.tokens[r])
                   tokens == smp'.tokens[r]
               IN /\ UNCHANGED SEED_COUNTER
                  /\ \E i \in 1..Len(candidates) :
                        /\ tokens[Len(tokens)] = SampleVocab[i]
                        /\ \A j \in 1..Len(candidates) : j # i => candidates[i] > candidates[j]
                  /\ \A q \in Samplings :
                        smp'.temperature[q] <= 0 =>
                            LET n == IF Len(smp'.tokens[q]) < Len(tokens)
                                     THEN Len(smp'.tokens[q]) ELSE Len(tokens)
                            IN SubSeq(smp'.tokens[q], 1, n) = SubSeq(tokens, 1, n)]_vars

\* two loops, one at -0.5 and one at 0.0, have selected the same tokens up to
\* the bound, with random draws made before them
C28_Witness ==
    /\ smp.temperature["s1"] < 0
    /\ smp.temperature["s2"] = 0
    /\ Len(smp.tokens["s1"]) = MaxIter
    /\ smp.tokens["s2"] = smp.tokens["s1"]
    /\ smp.drawn # {}
    /\ SEED_COUNTER # smp.start

\* the mathematical value of a call: the vectors' components as integers
\* (the exponent of a vector scales its norm, not its direction)
CosineCase ==
    [ma |-> [i \in 1..Len(csim.a) |-> csim.a[i][1]],
     mb |-> [i \in 1..Len(csim.b) |-> csim.b[i][1]]]

\* the claim about one call: 0.0 when a vector is empty or of zero norm or
\* the lengths differ; otherwise dot(a,b)/(|a|*|b|), which is 1 for b = a,
\* 0 for dot(a,b) = 0 and -1 for b = -a
CosineAsClaimed ==
    LET ma == CosineCase.ma
        mb == CosineCase.mb
        sim == csim.similarity
    IN IF Len(ma) # Len(mb) \/ ma = <<>> \/ Dot(ma, ma) = 0 \/ Dot(mb, mb) = 0
       THEN sim = <<0, 1>>
       ELSE /\ sim[2] > 0
            /\ sim[1] * Dot(ma, mb) >= 0
            /\ sim[1] * sim[1] * Dot(ma, ma) * Dot(mb, mb)
                   = Dot(ma, mb) * Dot(ma, mb) * sim[2] * sim[2]
            /\ ma = mb => sim[1] = sim[2]
            /\ Dot(ma, mb) = 0 => sim[1] = 0
            /\ mb = [i \in 1..Len(ma) |-> 0 - ma[i]] => sim[1] = 0 - sim[2]

C30_StopSequences ==
    [][\A g \in Gens :
           /\ \A i \in 1..Len(gfrags'[g]) : ~ShouldStop(gfrags'[g][i])
           /\ \A t \in StopVocab, decode \in DecodeOutcomes :
                  /\ GenIterate(g, t, TRUE, decode)
                  /\ giter[g] < AsUsize(gmax[g])
                  /\ ~IsEogToken(t)
                  /\ ShouldStop(gacc[g] \o TokenPiece(t))
                  => /\ gpc'[g] = "finish"
                     /\ gres'[g] = "Ok"
                     /\ gfrags'[g] = IF CleanToken(TokenPiece(t)) = <<>> THEN gfrags[g]
                                     ELSE Append(gfrags[g], CleanToken(TokenPiece(t)))]_vars

\* the entries of the semantic section of a built prompt
SemanticEntries == SelectSeq(bld.enriched, LAMBDA p : p.kind = "hit")

\* C31: the semantic section of a built prompt holds at most 3 entries; they
\* are hits of the search over message and memory records with floor 0.4, in
\* the order of the search, of non-increasing similarity, each with a
\* similarity above 0.5 and a source whose content the database holds
C31_SemanticEntries ==
    bld.pc = "done" =>
        LET results == semantic_search(bld.db.embeddings, <<1, 0>>, NoFilter, RagLimit,
                                       <<2, 5>>)
        IN /\ Len(SemanticEntries) <= 3
           /\ \A i \in DOMAIN results : SimGe(results[i].similarity, <<2, 5>>)
           /\ \E f \in [DOMAIN SemanticEntries -> DOMAIN results] :
                 /\ \A i, j \in DOMAIN f :
                       i < j => /\ f[i] < f[j]
                                /\ SimGe(results[f[i]].similarity, results[f[j]].similarity)
                 /\ \A i \in DOMAIN f :
                       LET hit == results[f[i]]
                       IN /\ SimGt(hit.similarity, <<1, 2>>)
                          /\ <<hit.source_type, hit.source_id>> \in bld.db.stored
                          /\ SemanticEntries[i] =
                                Piece("hit", <<SourceLabel(hit.source_type),
                                               Take(StoredContent(hit.source_type,
                                                                  hit.source_id),
                                                    ContentShown)>>)

\* C31 witness: five hits over the floor, of both source types, four of them
\* above 0.5, the best one without stored content: the section shows the next
\* three
C31_Witness ==
    /\ bld.pc = "done"
    /\ bld.db.rag = "ok" /\ bld.db.embeddings = RagTables.many
    /\ <<"message", 3>> \notin bld.db.stored
    /\ Len(SemanticEntries) = 3
    /\ SemanticEntries[1] = Piece("hit", <<SourceLabel("memory"), StoredContent("memory", 4)>>)
    /\ SemanticEntries[3] = Piece("hit", <<SourceLabel("message"), StoredContent("message", 1)>>)

\* C32: the keyword query of a call is the first 3 words of the utterance
\* that are longer than 3 characters, joined by " OR " in their order, for
\* ASCII and multi-byte text alike, and no search is made when no word
\* qualifies
C32_KeywordQuery ==
    bld.pc = "done" =>
        LET keywords == Take(SelectSeq(SplitWhitespace(bld.prompt), LAMBDA w : Len(w) > 3), 3)
        IN bld.search_query = IF keywords = <<>> THEN <<>> ELSE <<JoinOr(keywords)>>

\* the messages rendered in the keyword section of a built prompt
KeywordEntries == SelectSeq(bld.enriched, LAMBDA p : p.kind = "chat")

\* C33: the keyword section of a built prompt renders at most 3 messages,
\* each of them a stored message of a session other than the request's
C33_OtherSessionsOnly ==
    bld.pc = "done" =>
        /\ Len(KeywordEntries) <= 3
        /\ \A i \in DOMAIN KeywordEntries :
              /\ \E m \in Range(bld.db.messages) :
                    /\ m.session_id # bld.session_id
                    /\ KeywordEntries[i] =
                          Piece("chat", <<m.session_title, RoleLabel(m.is_user),
                                          Take(m.content, ContentShown)>>)
              /\ \A m \in Range(bld.db.messages) :
                    m.session_id = bld.session_id =>
                        KeywordEntries[i].args[1] # m.session_title

\* C33 witness: four messages of another session match, three are rendered
C33_Witness ==
    /\ bld.pc = "done"
    /\ bld.session_id = 1
    /\ Len(bld.db.messages) = 4
    /\ \A i \in 1..4 : /\ bld.db.messages[i].session_id = 2
                       /\ TextTime \in Range(SplitWhitespace(bld.db.messages[i].content))
    /\ bld.search_query # <<>>
    /\ Len(KeywordEntries) = 3

\* C39: when the keyword search of a call succeeds and a message of another
\* session holds a term of the query, the built prompt has the keyword
\* section with a message in it, however many messages of the request's own
\* session match
C39_OtherSessionShown ==
    (/\ bld.pc = "done"
     /\ bld.search_query # <<>>
     /\ bld.db.fts = "ok"
     /\ \E m \in Range(bld.db.messages) :
           /\ m.session_id # bld.session_id
           /\ Range(SplitWhitespace(m.content))
                 \cap (Range(SplitWhitespace(bld.search_query[1])) \ {<<"O", "R">>}) # {})
    => (HeaderKeyword \in Range(bld.enriched) /\ KeywordEntries # <<>>)

\* the text the frontend has after the fragments of a generation
RECURSIVE Concatenation(_)
Concatenation(frags) ==
    IF frags = <<>> THEN <<>> ELSE Head(frags) \o Concatenation(Tail(frags))

\* C37: the concatenation of the fragments a generation has passed to the
\* callback never contains a stop sequence, however the text is split into
\* tokens
C37_NoStopInOutput ==
    \A g \in Gens : ~ShouldStop(Concatenation(gfrags[g]))

\* C38: an index_message or index_memory call that comes to embed the
\* content while the embedding model is not initialised or fails returns Err
\* and leaves the embeddings store as it was, a record stored before for the
\* same source included, whichever indexing path makes the call (the calls
\* are taken with a store that would accept the record)
C38_FailedEmbedKeepsStore ==
    [][\A lookup \in QueryOutcomes :
          LET Embeds(source_type, source_id, content) ==
                  ~has_embedding(embeddings, source_type, source_id, content, lookup)
              Kept == /\ embeddings' = embeddings
                      /\ idxLast'.result = IF EMBEDDER THEN "EmbeddingFailed"
                                           ELSE "EmbedderNotInitialized"
                      /\ ~idxLast'.wrote
          IN /\ \A t \in tasks :
                   (/\ Embeds("message", t.id, t.content)
                    /\ IndexTask(t, "ok", lookup, "fail", "ok")) => Kept
             /\ \A m \in memory, c \in Contents :
                   (/\ Embeds("memory", m.id, c)
                    /\ IndexMemory(m, c, lookup, "fail", "ok")) => Kept
             /\ (/\ iapc = "loop" /\ iasnap # <<>>
                 /\ Embeds("message", Head(iasnap).id, Head(iasnap).content)
                 /\ IndexAllStep(lookup, "fail", "ok")) => Kept]_vars

\* C38 witness: index_memory was called with changed content for a fact whose
\* record is stored, the embedding model failed, and the record is still there
C38_Witness ==
    /\ idxLast.other
    /\ idxLast.embedded
    /\ idxLast.result = "EmbeddingFailed"
    /\ ~idxLast.wrote
    /\ \E r \in embeddings : r.source_type = "memory"

\* C40: a vector read back from its bytes has the length and, element by
\* element in the same order, the f32 values (the same bits) of the vector
\* written, and the bytes are 4 per element, the element's bits with the
\* least significant byte first
C40_VectorRoundTrip ==
    /\ rtrip.pc \in {"blob", "read"} =>
          /\ Len(rtrip.bytes) = 4 * Len(rtrip.floats)
          /\ \A k \in DOMAIN rtrip.bytes : rtrip.bytes[k] \in 0..255
          /\ \A i \in DOMAIN rtrip.floats :
                /\ rtrip.bytes[4 * i - 3] + 256 * rtrip.bytes[4 * i - 2] = rtrip.floats[i][2]
                /\ rtrip.bytes[4 * i - 1] + 256 * rtrip.bytes[4 * i] = rtrip.floats[i][1]
    /\ rtrip.pc = "read" =>
          /\ Len(rtrip.recovered) = Len(rtrip.floats)
          /\ \A i \in DOMAIN rtrip.floats : rtrip.recovered[i] = rtrip.floats[i]

\* C40 witness: the vector (-3.14, NaN) was written as C3 F5 48 C0 00 00 C0 7F
\* and read back
C40_Witness ==
    /\ rtrip.pc = "read"
    /\ rtrip.floats = <<<<49224, 62915>>, <<32704, 0>>>>
    /\ rtrip.bytes = <<195, 245, 72, 192, 0, 0, 192, 127>>
    /\ rtrip.recovered = rtrip.floats

\* C35: the events of two generate requests are not interleaved: of two
\* requests, one has all its "llm-token" events and its "llm-finished" event
\* before every "llm-token" event of the other
C35_StreamsNotInterleaved ==
    \A g, h \in Gens :
        g # h =>
            \/ \A i, j \in DOMAIN events :
                  (events[i][2] = g /\ events[j] = <<"llm-token", h>>) => i < j
            \/ \A i, j \in DOMAIN events :
                  (events[i][2] = h /\ events[j] = <<"llm-token", g>>) => i < j

\* C36: whenever no load_model and no unload_model call is in progress (and
\* no generation task has panicked: MODEL's mutex is not poisoned), the
\* stored model path is set exactly when a model is loaded, whatever load
\* commands and unload commands have run before
C36_PathIffLoaded ==
    (/\ \A l \in Loaders : lpc[l] \in {"idle", "done"}
     /\ \A u \in Unloaders : upc[u] \in {"idle", "done"}
     /\ ~modelPoisoned)
    => (MODEL_PATH # NoPath <=> MODEL # NoModel)

\* C34: no load_model, unload_model or generate call (with the is_loaded
\* check inside it) waits forever, also when stop_generation is called: every
\* call that was invoked returns, a load or an unload invoked during a
\* generation after that generation has released the model
C34_CallsReturn ==
    /\ \A l \in Loaders : (lpc[l] # "idle") ~> (lpc[l] = "done")
    /\ \A u \in Unloaders : (upc[u] # "idle") ~> (upc[u] = "done")
    /\ (gpc["g1"] # "idle") ~> (gpc["g1"] = "done")

\* C34 witness: a generation has made a pass of its loop with the model
\* locked while stop_generation was called and a load, holding
\* LOAD_MODEL_LOCK, and an unload both wait for MODEL's mutex
C34_Witness ==
    /\ InLoop("g1") /\ modelLock = "g1" /\ giter["g1"] > 0
    /\ STOP_GENERATION
    /\ upc["u1"] = "unload_model"
    /\ \E l \in Loaders : lpc[l] = "unload_model" /\ LOAD_MODEL_LOCK = l

====
